---- MODULE Spec2Model ----
(***************************************************************************)
(* A model of the prompt registry (src/src/registry/store.py), the         *)
(* migration engine (src/src/migration/migrate.py), the sample ingestors   *)
(* (src/src/ingestion) and the configuration they share (src/config.py).   *)
(*                                                                         *)
(* Identifiers, environment names and change notes are Python strings that *)
(* the code slices, compares by suffix and concatenates; they are modelled *)
(* as sequences of one-character strings.  Texts the code only copies      *)
(* (system instructions, templates) are atomic TLA+ strings.  A Python     *)
(* dict is an insertion-ordered sequence of [key, val] pairs.  An optional *)
(* argument is a set: {} for None, {v} for the value v.                    *)
(***************************************************************************)
EXTENDS Integers, Sequences, FiniteSets, TLC

VARIABLES
    registry,   \* data["prompts"] of the registry file: dict id -> record
    manifest,   \* manifest["migrations"] of the manifest file: list of entries
    clock,      \* the reading of datetime.utcnow(), in ticks
    last,       \* the last call made: its arguments and what it returned or raised
    intact,     \* the registry file holds a whole JSON document
    pending     \* per process: the call it is in, between two accesses to the files

vars == <<registry, manifest, clock, last, intact, pending>>

---------------------------------------------------------------------------
(* Bounds of the model.                                                    *)

\* the registry holds at most this many version entries, over all records
MaxEntries == 3
\* the clock is read up to this many ticks after the start
MaxClock == 2

\* the most version entries the registry holds after a run of the command line
MaxCliEntries == 8
\* ticks of the clock per second of strftime('%Y%m%d%H%M%S')
TicksPerSecond == 2
\* names of the id scheme are drawn up to this length
MaxNameLen == 2
\* ids of the suffix functions carry at most this many environment suffixes
MaxSuffixes == 2

---------------------------------------------------------------------------
(* Strings.                                                                *)

US == <<"_">>

EndsWith(s, suffix) ==
    /\ Len(s) >= Len(suffix)
    /\ SubSeq(s, Len(s) - Len(suffix) + 1, Len(s)) = suffix

UpperLetters ==
    <<"A", "B", "C", "D", "E", "F", "G", "H", "I", "J", "K", "L", "M",
      "N", "O", "P", "Q", "R", "S", "T", "U", "V", "W", "X", "Y", "Z">>

LowerLetters ==
    <<"a", "b", "c", "d", "e", "f", "g", "h", "i", "j", "k", "l", "m",
      "n", "o", "p", "q", "r", "s", "t", "u", "v", "w", "x", "y", "z">>

\* str.lower(), one character
LowerOf == [i \in 1..Len(UpperLetters) |-> LowerLetters[i]]

UpperIndex ==
    [c \in {UpperLetters[i] : i \in 1..Len(UpperLetters)} |->
        CHOOSE i \in 1..Len(UpperLetters) : UpperLetters[i] = c]

LowerChar(c) == IF c \in DOMAIN UpperIndex THEN LowerOf[UpperIndex[c]] ELSE c

\* str.lower()
Lower(s) == [i \in 1..Len(s) |-> LowerChar(s[i])]

\* str.replace(" ", "_")
ReplaceSpaces(s) == [i \in 1..Len(s) |-> IF s[i] = " " THEN "_" ELSE s[i]]

\* s[:n]
Prefix(s, n) == SubSeq(s, 1, IF Len(s) < n THEN Len(s) ELSE n)

DigitChars == <<"0", "1", "2", "3", "4", "5", "6", "7", "8", "9">>

RECURSIVE NatToStr(_)
NatToStr(n) ==
    IF n < 10 THEN <<DigitChars[n + 1]>>
    ELSE NatToStr(n \div 10) \o <<DigitChars[(n % 10) + 1]>>

\* str(n) of a Python int
IntToStr(n) == IF n < 0 THEN <<"-">> \o NatToStr(0 - n) ELSE NatToStr(n)

---------------------------------------------------------------------------
(* Python dicts: insertion-ordered, one entry per key.                     *)

EmptyDict == << >>

KeyList(d) == [i \in 1..Len(d) |-> d[i].key]

KeySet(d) == {d[i].key : i \in 1..Len(d)}

ValueList(d) == [i \in 1..Len(d) |-> d[i].val]

HasKey(d, k) == \E i \in 1..Len(d) : d[i].key = k

\* d[k] of a key that is present
Get(d, k) == d[CHOOSE i \in 1..Len(d) : d[i].key = k].val

\* d[k] = v: replaces the value in place, or appends a new key
Put(d, k, v) ==
    IF HasKey(d, k)
    THEN [i \in 1..Len(d) |-> IF d[i].key = k THEN [key |-> k, val |-> v] ELSE d[i]]
    ELSE Append(d, [key |-> k, val |-> v])

\* {**a, **b} of two mappings held as TLA+ functions
Merge(a, b) ==
    [k \in (DOMAIN a) \cup (DOMAIN b) |-> IF k \in DOMAIN b THEN b[k] ELSE a[k]]

\* Python truthiness of an optional dict: None and {} are false
TruthyDict(opt) == \E v \in opt : DOMAIN v # {}

\* Python truthiness of an optional string: None and "" are false
TruthyStr(opt) == \E v \in opt : Len(v) > 0

TheValue(opt) == CHOOSE v \in opt : TRUE

---------------------------------------------------------------------------
(* Configuration: src/config.py.                                           *)

DEV == <<"d", "e", "v">>
QA == <<"q", "a">>
STAGING == <<"s", "t", "a", "g", "i", "n", "g">>
PROD == <<"p", "r", "o", "d">>

ENVIRONMENTS == <<DEV, QA, STAGING, PROD>>

\* None stands for the Python None of the "prod" entry
NoEnv == << >>

ENVIRONMENT_TRANSITIONS ==
    [e \in {DEV, QA, STAGING, PROD} |->
        CASE e = DEV -> QA
          [] e = QA -> STAGING
          [] e = STAGING -> PROD
          [] e = PROD -> NoEnv]

BILLING == <<"b", "i", "l", "l", "i", "n", "g">>
TECH_SUPPORT == <<"t", "e", "c", "h", "_", "s", "u", "p", "p", "o", "r", "t">>
ACCOUNT_MGMT == <<"a", "c", "c", "o", "u", "n", "t", "_", "m", "g", "m", "t">>
GENERAL == <<"g", "e", "n", "e", "r", "a", "l">>
SHARED == <<"s", "h", "a", "r", "e", "d">>

DOMAINS == <<BILLING, TECH_SUPPORT, ACCOUNT_MGMT, GENERAL, SHARED>>

DFCX == <<"d", "f", "c", "x">>
ADK == <<"a", "d", "k">>
CUSTOM == <<"c", "u", "s", "t", "o", "m">>

AGENT_TYPES == <<DFCX, ADK, CUSTOM>>

OPERATOR == "pawan.malik"

DEFAULT_MODEL_PARAMS ==
    [model |-> "gemini-1.5-pro", temperature |-> "0.7",
     max_output_tokens |-> "1024", top_p |-> "0.9", top_k |-> "40"]

INITIAL_VERSION == 1

\* x in <list>
InList(x, list) == \E i \in 1..Len(list) : list[i] = x

---------------------------------------------------------------------------
(* Identifier scheme.                                                      *)

\* the slice bound of name_slug
NAME_SLUG_LEN == 30

\* a faulty _generate_prompt_id: the environment is left out of the id
GeneratePromptIdBare(name, domain, agent_type, environment) ==
    agent_type \o US \o domain \o US \o Prefix(ReplaceSpaces(Lower(name)), NAME_SLUG_LEN)

\* a faulty _generate_prompt_id: the domain is left out of the id
GeneratePromptIdNoDomain(name, domain, agent_type, environment) ==
    agent_type \o US \o Prefix(ReplaceSpaces(Lower(name)), NAME_SLUG_LEN) \o US \o environment

\* PromptRegistry._generate_prompt_id
GeneratePromptId(name, domain, agent_type, environment) ==
    LET name_slug == Prefix(ReplaceSpaces(Lower(name)), NAME_SLUG_LEN)
    IN  IF Len(environment) > 0
        THEN agent_type \o US \o domain \o US \o name_slug \o US \o environment
        ELSE agent_type \o US \o domain \o US \o name_slug

\* f"_{env}" of each environment, in ENVIRONMENTS order
EnvSuffixes == [i \in 1..Len(ENVIRONMENTS) |-> US \o ENVIRONMENTS[i]]

\* the first environment, in ENVIRONMENTS order, whose suffix s carries (0: none)
FirstEnvSuffix(s) ==
    LET hits == {i \in 1..Len(ENVIRONMENTS) : EndsWith(s, EnvSuffixes[i])}
    IN  IF hits = {} THEN 0 ELSE CHOOSE i \in hits : \A j \in hits : i <= j

\* MigrationEngine._get_base_prompt_id
GetBasePromptId(prompt_id) ==
    LET i == FirstEnvSuffix(prompt_id)
    IN  IF i = 0 THEN prompt_id
        ELSE SubSeq(prompt_id, 1, Len(prompt_id) - (Len(ENVIRONMENTS[i]) + 1))

\* a faulty _build_env_prompt_id: the suffix is appended without the strip
BuildEnvPromptIdAppend(base_prompt_id, environment) ==
    base_prompt_id \o US \o environment

\* MigrationEngine._build_env_prompt_id
BuildEnvPromptId(base_prompt_id, environment) ==
    LET i == FirstEnvSuffix(base_prompt_id)
        stripped ==
            IF i = 0 THEN base_prompt_id
            ELSE SubSeq(base_prompt_id, 1,
                        Len(base_prompt_id) - (Len(ENVIRONMENTS[i]) + 1))
    IN  stripped \o US \o environment

---------------------------------------------------------------------------
(* The registry: src/src/registry/store.py.  Every method is an operator   *)
(* from the loaded data (and the clock reading) to what the call raises or *)
(* returns together with the data it saved.                                *)

\* raise exc(...): nothing is saved, the file keeps the data d
Raise(exc, kind, detail, d) ==
    [outcome |-> kind, exc |-> exc, detail |-> detail, data |-> d, ret |-> << >>]

\* return ret, after self._save(d)
Return(ret, d) ==
    [outcome |-> "ok", exc |-> "", detail |-> << >>, data |-> d, ret |-> ret]

\* PromptRegistry._timestamp: datetime.utcnow().isoformat() + "Z"
Timestamp(now) == IntToStr(now) \o <<"Z">>

\* a faulty _validate: it raises at the first invalid field
ValidateFirstOnly(domain, agent_type, environment) ==
    IF ~InList(domain, DOMAINS)
    THEN <<[field |-> "domain", value |-> domain]>>
    ELSE IF ~InList(agent_type, AGENT_TYPES)
    THEN <<[field |-> "agent_type", value |-> agent_type]>>
    ELSE IF ~InList(environment, ENVIRONMENTS)
    THEN <<[field |-> "environment", value |-> environment]>>
    ELSE << >>

\* a faulty _validate: the environment is not looked at
ValidateWithoutEnvironment(domain, agent_type, environment) ==
    (IF ~InList(domain, DOMAINS)
        THEN <<[field |-> "domain", value |-> domain]>> ELSE << >>)
    \o (IF ~InList(agent_type, AGENT_TYPES)
        THEN <<[field |-> "agent_type", value |-> agent_type]>> ELSE << >>)

\* PromptRegistry._validate: the list of errors, one per invalid field
Validate(domain, agent_type, environment) ==
    (IF ~InList(domain, DOMAINS)
        THEN <<[field |-> "domain", value |-> domain]>> ELSE << >>)
    \o (IF ~InList(agent_type, AGENT_TYPES)
        THEN <<[field |-> "agent_type", value |-> agent_type]>> ELSE << >>)
    \o (IF ~InList(environment, ENVIRONMENTS)
        THEN <<[field |-> "environment", value |-> environment]>> ELSE << >>)

\* one entry of prompt["versions"]
VersionEntry(version, system_instructions, template, now, change_note) ==
    [version             |-> version,
     system_instructions |-> system_instructions,
     template            |-> template,
     created_at          |-> Timestamp(now),
     created_by          |-> OPERATOR,
     change_note         |-> change_note]

InitialNote == <<"I", "n", "i", "t", "i", "a", "l", " ", "v", "e", "r", "s", "i", "o", "n">>

\* the record create_prompt builds
NewPrompt(prompt_id, name, domain, agent_type, environment, system_instructions, template, model_parameters, metadata, now) ==
    [prompt_id        |-> prompt_id,
     name             |-> name,
     domain           |-> domain,
     agent_type       |-> agent_type,
     environment      |-> environment,
     current_version  |-> INITIAL_VERSION,
     created_at       |-> Timestamp(now),
     updated_at       |-> Timestamp(now),
     model_parameters |-> IF TruthyDict(model_parameters)
                          THEN TheValue(model_parameters)
                          ELSE DEFAULT_MODEL_PARAMS,
     metadata         |-> IF TruthyDict(metadata)
                          THEN TheValue(metadata) ELSE [k \in {} |-> ""],
     versions         |-> Put(EmptyDict, IntToStr(INITIAL_VERSION),
                              VersionEntry(INITIAL_VERSION, system_instructions,
                                           template, now, InitialNote))]

\* a faulty create_prompt: it saves over a record that already exists
CreatePromptOverwriting(d, now, name, domain, agent_type, environment, system_instructions, template, model_parameters, metadata) ==
    LET errors == Validate(domain, agent_type, environment)
        prompt_id == GeneratePromptId(name, domain, agent_type, environment)
        prompt == NewPrompt(prompt_id, name, domain, agent_type, environment,
                            system_instructions, template, model_parameters,
                            metadata, now)
    IN  IF errors # << >>
        THEN Raise("ValueError", "ValidationError", errors, d)
        ELSE Return(prompt, Put(d, prompt_id, prompt))

\* PromptRegistry.create_prompt
CreatePrompt(d, now, name, domain, agent_type, environment, system_instructions, template, model_parameters, metadata) ==
    LET errors == Validate(domain, agent_type, environment)
        prompt_id == GeneratePromptId(name, domain, agent_type, environment)
        prompt == NewPrompt(prompt_id, name, domain, agent_type, environment,
                            system_instructions, template, model_parameters,
                            metadata, now)
    IN  IF errors # << >>
        THEN Raise("ValueError", "ValidationError", errors, d)
        ELSE IF HasKey(d, prompt_id)
        THEN Raise("ValueError", "AlreadyExistsError", prompt_id, d)
        ELSE Return(prompt, Put(d, prompt_id, prompt))

\* PromptRegistry.get_prompt: {**prompt, **prompt["versions"][current_v]}
GetPrompt(d, prompt_id) ==
    IF ~HasKey(d, prompt_id)
    THEN Raise("KeyError", "NotFoundError", prompt_id, d)
    ELSE LET prompt == Get(d, prompt_id)
             current_v == IntToStr(prompt.current_version)
         IN  Return(Merge(prompt, Get(prompt.versions, current_v)), d)

\* the test of one record in the loop of list_prompts
ListMatches(prompt, domain, environment, agent_type) ==
    /\ ~(TruthyStr(domain) /\ prompt.domain # TheValue(domain))
    /\ ~(TruthyStr(environment) /\ prompt.environment # TheValue(environment))
    /\ ~(TruthyStr(agent_type) /\ prompt.agent_type # TheValue(agent_type))

RECURSIVE FilterSeq(_, _, _, _)
FilterSeq(prompts, domain, environment, agent_type) ==
    IF prompts = << >> THEN << >>
    ELSE (IF ListMatches(Head(prompts), domain, environment, agent_type)
          THEN <<Head(prompts)>> ELSE << >>)
         \o FilterSeq(Tail(prompts), domain, environment, agent_type)

\* PromptRegistry.list_prompts
ListPrompts(d, domain, environment, agent_type) ==
    FilterSeq(ValueList(d), domain, environment, agent_type)

\* a faulty update: the new entry is written under the current version number
UpdatedPromptInPlace(prompt, system_instructions, template, change_note, model_parameters, now) ==
    LET new_version == prompt.current_version
    IN  [prompt EXCEPT
            !.versions = Put(@, IntToStr(new_version),
                             VersionEntry(new_version, system_instructions,
                                          template, now, change_note)),
            !.current_version = new_version,
            !.updated_at = Timestamp(now),
            !.model_parameters = IF TruthyDict(model_parameters)
                                 THEN TheValue(model_parameters) ELSE @]

\* the record update_prompt saves
UpdatedPrompt(prompt, system_instructions, template, change_note, model_parameters, now) ==
    LET new_version == prompt.current_version + 1
    IN  [prompt EXCEPT
            !.versions = Put(@, IntToStr(new_version),
                             VersionEntry(new_version, system_instructions,
                                          template, now, change_note)),
            !.current_version = new_version,
            !.updated_at = Timestamp(now),
            !.model_parameters = IF TruthyDict(model_parameters)
                                 THEN TheValue(model_parameters) ELSE @]

\* PromptRegistry.update_prompt
UpdatePrompt(d, now, prompt_id, system_instructions, template, change_note, model_parameters) ==
    IF ~HasKey(d, prompt_id)
    THEN Raise("KeyError", "NotFoundError", prompt_id, d)
    ELSE LET prompt == UpdatedPrompt(Get(d, prompt_id), system_instructions,
                                     template, change_note, model_parameters, now)
         IN  Return(prompt, Put(d, prompt_id, prompt))

RollbackNote(target_version) ==
    <<"R", "o", "l", "l", "b", "a", "c", "k", " ", "t", "o", " ", "v">>
    \o IntToStr(target_version)

\* a faulty rollback: it copies the content of the current version
RolledBackFromCurrent(prompt, target_version, now) ==
    LET target_content == Get(prompt.versions, IntToStr(prompt.current_version))
        new_version == prompt.current_version + 1
    IN  [prompt EXCEPT
            !.versions = Put(@, IntToStr(new_version),
                             VersionEntry(new_version,
                                          target_content.system_instructions,
                                          target_content.template, now,
                                          RollbackNote(target_version))),
            !.current_version = new_version,
            !.updated_at = Timestamp(now)]

\* the record rollback saves
RolledBackPrompt(prompt, target_version, now) ==
    LET target_content == Get(prompt.versions, IntToStr(target_version))
        new_version == prompt.current_version + 1
    IN  [prompt EXCEPT
            !.versions = Put(@, IntToStr(new_version),
                             VersionEntry(new_version,
                                          target_content.system_instructions,
                                          target_content.template, now,
                                          RollbackNote(target_version))),
            !.current_version = new_version,
            !.updated_at = Timestamp(now)]

\* a faulty rollback: a version that is not there falls back to the current one
RollbackLenient(d, now, prompt_id, target_version) ==
    IF ~HasKey(d, prompt_id)
    THEN Raise("KeyError", "NotFoundError", prompt_id, d)
    ELSE LET prompt == Get(d, prompt_id)
             version == IF HasKey(prompt.versions, IntToStr(target_version))
                        THEN target_version ELSE prompt.current_version
             rolled == RolledBackPrompt(prompt, version, now)
         IN  Return(rolled, Put(d, prompt_id, rolled))

\* PromptRegistry.rollback
Rollback(d, now, prompt_id, target_version) ==
    IF ~HasKey(d, prompt_id)
    THEN Raise("KeyError", "NotFoundError", prompt_id, d)
    ELSE LET prompt == Get(d, prompt_id)
         IN  IF ~HasKey(prompt.versions, IntToStr(target_version))
             THEN Raise("ValueError", "VersionNotFoundError",
                        KeyList(prompt.versions), d)
             ELSE LET rolled == RolledBackPrompt(prompt, target_version, now)
                  IN  Return(rolled, Put(d, prompt_id, rolled))

---------------------------------------------------------------------------
(* The migration engine: src/src/migration/migrate.py.                     *)

\* the first id of all_ids with the base id of prompt_id, as an optional id
FirstWithBase(all_ids, prompt_id) ==
    LET base == GetBasePromptId(prompt_id)
        hits == {i \in 1..Len(all_ids) : GetBasePromptId(all_ids[i]) = base}
    IN  IF hits = {} THEN {}
        ELSE {all_ids[CHOOSE i \in hits : \A j \in hits : i <= j]}

\* a faulty step 1: the exact id is not tried first
ResolveByBaseOnly(d, prompt_id) == FirstWithBase(KeyList(d), prompt_id)

\* step 1 of migrate: resolved_id, None when nothing matches
Resolve(d, prompt_id) ==
    LET all_ids == KeyList(d)
    IN  IF InList(prompt_id, all_ids) THEN {prompt_id}
        ELSE FirstWithBase(all_ids, prompt_id)

\* a faulty transition table: every environment but prod leads to itself
TransitionStaying(source_env) ==
    IF source_env = PROD THEN NoEnv ELSE source_env

\* a faulty transition table: dev is promoted past qa
TransitionSkipping(source_env) ==
    IF source_env = DEV THEN STAGING
    ELSE IF source_env \in DOMAIN ENVIRONMENT_TRANSITIONS
    THEN ENVIRONMENT_TRANSITIONS[source_env] ELSE NoEnv

\* config.ENVIRONMENT_TRANSITIONS.get(source_env)
TransitionGet(source_env) ==
    IF source_env \in DOMAIN ENVIRONMENT_TRANSITIONS
    THEN ENVIRONMENT_TRANSITIONS[source_env] ELSE NoEnv

\* datetime.utcnow().strftime('%Y%m%d%H%M%S'): the clock cut to whole seconds
SecondStamp(now) == IntToStr(now \div TicksPerSecond)

MigrationId(base_id, source_env, target_env, now) ==
    <<"m", "i", "g", "_">> \o base_id \o US \o source_env
    \o <<"_", "t", "o", "_">> \o target_env \o US \o SecondStamp(now)

\* step 4 of migrate: the manifest entry as first built
ManifestEntry(base_id, resolved_id, target_prompt_id, source_env, target_env, source_version, dry_run, now) ==
    [migration_id     |-> MigrationId(base_id, source_env, target_env, now),
     source_prompt_id |-> resolved_id,
     target_prompt_id |-> target_prompt_id,
     source_env       |-> source_env,
     target_env       |-> target_env,
     source_version   |-> source_version,
     target_version   |-> {},
     operator         |-> OPERATOR,
     timestamp        |-> Timestamp(now),
     dry_run          |-> dry_run,
     status           |-> "pending"]

PromotedNote(source_env, source_version) ==
    <<"P", "r", "o", "m", "o", "t", "e", "d", " ", "f", "r", "o", "m", " ">>
    \o source_env \o <<" ", "v">> \o IntToStr(source_version)

\* a faulty metadata of a promotion: the metadata of the source is left out
PromotedMetadataAlone(source_prompt, source_env, source_version) ==
    [promoted_from         |-> source_env,
     promoted_from_version |-> source_version,
     promoted_by           |-> OPERATOR]

\* the metadata of a record created by a promotion
PromotedMetadata(source_prompt, source_env, source_version) ==
    Merge(source_prompt.metadata,
          [promoted_from         |-> source_env,
           promoted_from_version |-> source_version,
           promoted_by           |-> OPERATOR])

\* step 5 of migrate: what a dry run does with the entry; m is the manifest
DryRun(entry, d, m) ==
    [outcome |-> "ok", exc |-> "", detail |-> << >>, data |-> d,
     manifest |-> m, ret |-> [entry EXCEPT !.status = "dry_run"]]

\* a faulty step 7: the entry is marked a success without its target_version
FinalizeWithoutVersion(entry, target_version) ==
    [entry EXCEPT !.status = "success"]

\* step 7 of migrate: the entry is completed
Finalize(entry, target_version) ==
    [entry EXCEPT !.target_version = {target_version}, !.status = "success"]

\* a faulty save: the manifest file is written with the new entry alone
ReplaceManifest(m, entry) == <<entry>>

\* step 7 of migrate: load the manifest, append the entry, save it
AppendToManifest(m, entry) == Append(m, entry)

\* faulty steps 6 and 7: the update of an existing target is given the model
\* parameters of the source
RealRunCarryingParameters(entry, d, m, now, source_prompt, version_content) ==
    LET in_target == ListPrompts(d, {}, {entry.target_env}, {})
        existing_in_target == [i \in 1..Len(in_target) |-> in_target[i].prompt_id]
        written ==
            IF InList(entry.target_prompt_id, existing_in_target)
            THEN UpdatePrompt(d, now, entry.target_prompt_id,
                              version_content.system_instructions,
                              version_content.template,
                              PromotedNote(entry.source_env, entry.source_version),
                              {source_prompt.model_parameters})
            ELSE CreatePrompt(d, now, source_prompt.name, source_prompt.domain,
                              source_prompt.agent_type, entry.target_env,
                              version_content.system_instructions,
                              version_content.template,
                              {source_prompt.model_parameters},
                              {PromotedMetadata(source_prompt, entry.source_env,
                                                entry.source_version)})
    IN  IF written.outcome # "ok"
        THEN [outcome |-> written.outcome, exc |-> written.exc,
              detail |-> written.detail, data |-> d, manifest |-> m,
              ret |-> << >>]
        ELSE [outcome |-> "ok", exc |-> "", detail |-> << >>,
              data |-> written.data,
              manifest |-> AppendToManifest(m, Finalize(entry, written.ret.current_version)),
              ret |-> Finalize(entry, written.ret.current_version)]

\* faulty steps 6 and 7: the entry is appended to the manifest before the
\* write to the registry, and stays there when the write raises
RealRunRecordedFirst(entry, d, m, now, source_prompt, version_content) ==
    LET in_target == ListPrompts(d, {}, {entry.target_env}, {})
        existing_in_target == [i \in 1..Len(in_target) |-> in_target[i].prompt_id]
        written ==
            IF InList(entry.target_prompt_id, existing_in_target)
            THEN UpdatePrompt(d, now, entry.target_prompt_id,
                              version_content.system_instructions,
                              version_content.template,
                              PromotedNote(entry.source_env, entry.source_version),
                              {})
            ELSE CreatePrompt(d, now, source_prompt.name, source_prompt.domain,
                              source_prompt.agent_type, entry.target_env,
                              version_content.system_instructions,
                              version_content.template,
                              {source_prompt.model_parameters},
                              {PromotedMetadata(source_prompt, entry.source_env,
                                                entry.source_version)})
    IN  IF written.outcome # "ok"
        THEN [outcome |-> written.outcome, exc |-> written.exc,
              detail |-> written.detail, data |-> d,
              manifest |-> AppendToManifest(m, entry), ret |-> << >>]
        ELSE [outcome |-> "ok", exc |-> "", detail |-> << >>,
              data |-> written.data,
              manifest |-> AppendToManifest(m, Finalize(entry, written.ret.current_version)),
              ret |-> Finalize(entry, written.ret.current_version)]

\* steps 6 and 7 of migrate: the write to the registry, then to the manifest
RealRun(entry, d, m, now, source_prompt, version_content) ==
    LET target_env == entry.target_env
        target_prompt_id == entry.target_prompt_id
        in_target == ListPrompts(d, {}, {target_env}, {})
        existing_in_target == [i \in 1..Len(in_target) |-> in_target[i].prompt_id]
        written ==
            IF InList(target_prompt_id, existing_in_target)
            THEN UpdatePrompt(d, now, target_prompt_id,
                              version_content.system_instructions,
                              version_content.template,
                              PromotedNote(entry.source_env, entry.source_version),
                              {})
            ELSE CreatePrompt(d, now, source_prompt.name, source_prompt.domain,
                              source_prompt.agent_type, target_env,
                              version_content.system_instructions,
                              version_content.template,
                              {source_prompt.model_parameters},
                              {PromotedMetadata(source_prompt, entry.source_env,
                                                entry.source_version)})
        final == Finalize(entry, written.ret.current_version)
    IN  IF written.outcome # "ok"
        THEN [outcome |-> written.outcome, exc |-> written.exc,
              detail |-> written.detail, data |-> d, manifest |-> m,
              ret |-> << >>]
        ELSE [outcome |-> "ok", exc |-> "", detail |-> << >>,
              data |-> written.data, manifest |-> AppendToManifest(m, final),
              ret |-> final]

\* a faulty step 5: the dry_run flag is not looked at
AlwaysPromote(entry, d, m, now, source_prompt, version_content) ==
    RealRun(entry, d, m, now, source_prompt, version_content)

\* the branch of step 5 of migrate: stop after the dry run, or go on to write
SimulateOrPromote(entry, d, m, now, source_prompt, version_content) ==
    IF entry.dry_run
    THEN DryRun(entry, d, m)
    ELSE RealRun(entry, d, m, now, source_prompt, version_content)

\* MigrationEngine.migrate
Migrate(d, m, now, prompt_id, dry_run) ==
    LET resolved == Resolve(d, prompt_id)
    IN  IF resolved = {}
        THEN [outcome |-> "NotFoundError", exc |-> "KeyError",
              detail |-> prompt_id, data |-> d, manifest |-> m, ret |-> << >>]
        ELSE
        LET resolved_id == TheValue(resolved)
            source_prompt == GetPrompt(d, resolved_id).ret
            source_env == source_prompt.environment
            source_version == source_prompt.current_version
            version_content == Get(source_prompt.versions, IntToStr(source_version))
            target_env == TransitionGet(source_env)
            base_id == GetBasePromptId(resolved_id)
            target_prompt_id == BuildEnvPromptId(base_id, target_env)
            entry == ManifestEntry(base_id, resolved_id, target_prompt_id,
                                   source_env, target_env, source_version,
                                   dry_run, now)
        IN  IF target_env = NoEnv
            THEN [outcome |-> "TerminalEnvironmentError", exc |-> "ValueError",
                  detail |-> resolved_id, data |-> d, manifest |-> m,
                  ret |-> << >>]
            ELSE SimulateOrPromote(entry, d, m, now, source_prompt,
                                   version_content)

\* MigrationEngine.show_manifest: the entries it reads and prints, in order
ShowManifest(m) == m

---------------------------------------------------------------------------
(* The sample ingestors: src/src/ingestion.                                *)

\* get_dfcx_sample_prompts
DfcxSamplePrompts ==
    <<[name |-> <<"b", "i", "l", "l", "i", "n", "g", "_", "p", "a", "y", "m",
                  "e", "n", "t", "_", "q", "u", "e", "r", "y">>,
       domain |-> BILLING, agent_type |-> DFCX, environment |-> DEV,
       system_instructions |-> "You are a billing support assistant ...",
       template |-> "Customer has a query about: {issue_type} ...",
       model_parameters |->
           [model |-> "gemini-1.5-pro", temperature |-> "0.3",
            max_output_tokens |-> "512", top_p |-> "0.8", top_k |-> "20"],
       metadata |->
           [source_agent |-> "telecom-billing-agent-v2",
            generator_id |-> "gen-billing-001",
            dfcx_project |-> "telecom-cx-project",
            extracted_by |-> "dfcx_ingestor"]]>>

\* get_adk_sample_prompts
AdkSamplePrompts ==
    <<[name |-> <<"t", "e", "c", "h", "_", "s", "u", "p", "p", "o", "r", "t",
                  "_", "t", "r", "o", "u", "b", "l", "e", "s", "h", "o", "o",
                  "t">>,
       domain |-> TECH_SUPPORT, agent_type |-> ADK, environment |-> DEV,
       system_instructions |-> "You are a technical support specialist ...",
       template |-> "Customer reported issue: {issue_description} ...",
       model_parameters |->
           [model |-> "gemini-1.5-pro", temperature |-> "0.2",
            max_output_tokens |-> "1024", top_p |-> "0.9", top_k |-> "40"],
       metadata |->
           [source_agent |-> "adk-tech-support-v1",
            config_file |-> "agents/tech_support/agent.yaml",
            adk_version |-> "1.2.0",
            extracted_by |-> "adk_ingestor"]]>>

\* get_custom_sample_prompts
CustomSamplePrompts ==
    <<[name |-> <<"a", "c", "c", "o", "u", "n", "t", "_", "u", "p", "d", "a",
                  "t", "e", "_", "h", "a", "n", "d", "l", "e", "r">>,
       domain |-> ACCOUNT_MGMT, agent_type |-> CUSTOM, environment |-> DEV,
       system_instructions |-> "You are an account management assistant ...",
       template |-> "Customer request: {request_type} ...",
       model_parameters |->
           [model |-> "gemini-1.5-pro", temperature |-> "0.1",
            max_output_tokens |-> "768", top_p |-> "0.85", top_k |-> "30"],
       metadata |->
           [source_agent |-> "custom-account-agent-v3",
            codebase |-> "internal/agents/account_mgmt",
            owner_team |-> "account-platform-team",
            extracted_by |-> "custom_ingestor"]],
      [name |-> <<"s", "a", "f", "e", "t", "y", "_", "g", "u", "a", "r", "d",
                  "r", "a", "i", "l", "s">>,
       domain |-> SHARED, agent_type |-> CUSTOM, environment |-> DEV,
       system_instructions |-> "SAFETY GUARDRAILS - Apply these rules ...",
       template |-> "Before responding to any customer query, verify: ...",
       model_parameters |->
           [model |-> "gemini-1.5-pro", temperature |-> "0.0",
            max_output_tokens |-> "256", top_p |-> "1.0", top_k |-> "1"],
       metadata |->
           [source_agent |-> "shared-safety-layer",
            applies_to |-> "all_agents",
            owner_team |-> "platform-security-team",
            extracted_by |-> "custom_ingestor"]]>>

\* registry.create_prompt(...) of one sample prompt p
CreateSample(d, now, p) ==
    CreatePrompt(d, now, p.name, p.domain, p.agent_type, p.environment,
                 p.system_instructions, p.template,
                 {p.model_parameters}, {p.metadata})

\* a faulty loop: no exception of create_prompt is caught
CaughtNothing(r) == FALSE

\* the try/except of the ingestors' loop: is the exception of r caught?
CaughtAsSkip(r) == r.exc = "ValueError"

\* the loop of ingest_dfcx_prompts, ingest_adk_prompts and
\* ingest_custom_prompts over the sample prompts
RECURSIVE IngestLoop(_, _, _, _, _)
IngestLoop(d, now, prompts, ingested, skipped) ==
    IF prompts = << >>
    THEN [outcome |-> "ok", exc |-> "", data |-> d,
          ingested |-> ingested, skipped |-> skipped]
    ELSE LET r == CreateSample(d, now, Head(prompts))
         IN  IF r.outcome = "ok"
             THEN IngestLoop(r.data, now, Tail(prompts),
                             Append(ingested, r.ret.prompt_id), skipped)
             ELSE IF CaughtAsSkip(r)
             THEN IngestLoop(r.data, now, Tail(prompts), ingested,
                             Append(skipped, [name |-> Head(prompts).name,
                                              outcome |-> r.outcome]))
             ELSE [outcome |-> r.outcome, exc |-> r.exc, data |-> r.data,
                   ingested |-> ingested, skipped |-> skipped]

\* ingest_dfcx_prompts
IngestDfcxPrompts(d, now) == IngestLoop(d, now, DfcxSamplePrompts, << >>, << >>)

\* ingest_adk_prompts
IngestAdkPrompts(d, now) == IngestLoop(d, now, AdkSamplePrompts, << >>, << >>)

\* ingest_custom_prompts
IngestCustomPrompts(d, now) == IngestLoop(d, now, CustomSamplePrompts, << >>, << >>)

---------------------------------------------------------------------------
(* The command line: src/main.py and src/src/utils/versioning.py.          *)

\* str.lstrip() of a text of blanks and other characters
RECURSIVE LStrip(_)
LStrip(s) == IF s # << >> /\ Head(s) = " " THEN LStrip(Tail(s)) ELSE s

\* str.rstrip()
RECURSIVE RStrip(_)
RStrip(s) == IF s # << >> /\ s[Len(s)] = " " THEN RStrip(SubSeq(s, 1, Len(s) - 1)) ELSE s

\* str.strip()
Strip(s) == RStrip(LStrip(s))

\* sorted(versions.values(), key=lambda x: x["version"]): one insertion
RECURSIVE InsertByVersion(_, _)
InsertByVersion(sorted, v) ==
    IF sorted = << >> THEN <<v>>
    ELSE IF v.version < Head(sorted).version THEN <<v>> \o sorted
    ELSE <<Head(sorted)>> \o InsertByVersion(Tail(sorted), v)

\* a faulty sort: the latest version first
RECURSIVE SortedLatestFirst(_)
SortedLatestFirst(values) ==
    IF values = << >> THEN << >>
    ELSE <<values[Len(values)]>> \o SortedLatestFirst(SubSeq(values, 1, Len(values) - 1))

\* sorted(versions.values(), key=lambda x: x["version"])
RECURSIVE SortedByVersion(_)
SortedByVersion(values) ==
    IF values = << >> THEN << >>
    ELSE InsertByVersion(SortedByVersion(SubSeq(values, 1, Len(values) - 1)),
                         values[Len(values)])

\* PromptRegistry.get_version_history
GetVersionHistory(d, prompt_id) ==
    IF ~HasKey(d, prompt_id)
    THEN Raise("KeyError", "NotFoundError", prompt_id, d)
    ELSE Return(SortedByVersion(ValueList(Get(d, prompt_id).versions)), d)

\* show_version_history: the history, then the active version it prints
ShowVersionHistory(d, prompt_id) ==
    LET history == GetVersionHistory(d, prompt_id)
        prompt == GetPrompt(d, prompt_id)
    IN  IF history.outcome # "ok" THEN history
        ELSE IF prompt.outcome # "ok" THEN prompt
        ELSE Return([history |-> history.ret,
                     active_version |-> prompt.ret.current_version], d)

\* rollback_demo: the rollback, then the confirmation read back
RollbackDemo(d, now, prompt_id, target_version) ==
    LET rolled == Rollback(d, now, prompt_id, target_version)
        prompt == GetPrompt(rolled.data, prompt_id).ret
        active_content == Get(prompt.versions, IntToStr(prompt.current_version))
        original == GetVersionHistory(rolled.data, prompt_id).ret
        original_content ==
            original[CHOOSE i \in 1..Len(original) :
                        /\ original[i].version = target_version
                        /\ \A j \in 1..(i - 1) : original[j].version # target_version]
    IN  IF rolled.outcome # "ok" THEN rolled
        ELSE Return([active_version |-> prompt.current_version,
                     confirmed |-> active_content.system_instructions
                                       = original_content.system_instructions],
                    rolled.data)

\* ingest_all: the three ingestors in sequence
IngestAll(d, now) ==
    LET dfcx == IngestDfcxPrompts(d, now)
        adk == IngestAdkPrompts(dfcx.data, now)
        custom == IngestCustomPrompts(adk.data, now)
    IN  IF dfcx.outcome # "ok" THEN dfcx
        ELSE IF adk.outcome # "ok" THEN adk
        ELSE custom

DemoContent ==
    [system_instructions |-> "[UPDATED DEMO] You are an upgraded assistant ...",
     template |-> "[UPDATED DEMO] Issue: {issue_type} | Account: {account_id}"]

DemoNote == <<"A", "u", "t", "o", "m", "a", "t", "e", "d", " ", "v", "e", "r", "s", "i", "o", "n", " ", "u", "p", "d", "a", "t", "e", " ", "f", "o", "r", " ", "D", "e", "m", "o">>

\* what a command does with an exception of the core: nothing catches it and
\* the interpreter ends the process, or an except clause prints it
Uncaught(r) == [process |-> "uncaught", exc |-> r.exc, outcome |-> r.outcome, reported |-> << >>]

\* the process ran to its end, having printed these errors
Completed(reported) == [process |-> "completed", exc |-> "", outcome |-> "ok", reported |-> reported]

\* except Exception as e: print(f"... ERROR: {e}")
Reported(stage, r) == <<[stage |-> stage, exc |-> r.exc, outcome |-> r.outcome]>>

\* a command that ends at a message of its own, the core not called
Cancelled == [process |-> "cancelled", exc |-> "", outcome |-> "ok", reported |-> << >>]

\* the first of the calls of a try block that raised, or the last of them
RECURSIVE FirstRaised(_)
FirstRaised(calls) ==
    IF Len(calls) = 1 \/ Head(calls).outcome # "ok" THEN Head(calls)
    ELSE FirstRaised(Tail(calls))

---------------------------------------------------------------------------
(* The state machine.                                                      *)

\* the processes that call the registry and the migration engine
Processes == {1, 2}

\* a process that is in no call
Idle == [pc |-> "idle"]

\* the number of version entries the registry holds
RECURSIVE Entries(_)
Entries(d) ==
    IF d = << >> THEN 0 ELSE Len(Head(d).val.versions) + Entries(Tail(d))

\* a call that wrote to the registry stays within the bound of the model
WithinBound(d) == Entries(d) <= MaxEntries

\* the registry file and the manifest file as MigrationEngine() leaves them
Init ==
    /\ registry = EmptyDict
    /\ manifest = << >>
    /\ clock = 0
    /\ last = [op |-> "init", outcome |-> "ok"]
    /\ intact = TRUE
    /\ pending = [w \in Processes |-> Idle]

Create(name, domain, agent_type, environment, content, model_parameters, metadata) ==
    \E r \in {CreatePrompt(registry, clock, name, domain, agent_type, environment,
                          content.system_instructions, content.template,
                          model_parameters, metadata)} :
        /\ WithinBound(r.data)
        /\ registry' = r.data
        /\ last' = [op |-> "create_prompt", name |-> name, domain |-> domain,
                    agent_type |-> agent_type, environment |-> environment,
                    content |-> content, model_parameters |-> model_parameters,
                    metadata |-> metadata,
                    outcome |-> r.outcome, exc |-> r.exc, detail |-> r.detail,
                    ret |-> r.ret]
        /\ UNCHANGED <<manifest, clock, intact, pending>>

Update(prompt_id, content, change_note, model_parameters) ==
    \E r \in {UpdatePrompt(registry, clock, prompt_id, content.system_instructions,
                          content.template, change_note, model_parameters)} :
        /\ WithinBound(r.data)
        /\ registry' = r.data
        /\ last' = [op |-> "update_prompt", prompt_id |-> prompt_id,
                    content |-> content, change_note |-> change_note,
                    model_parameters |-> model_parameters,
                    outcome |-> r.outcome, exc |-> r.exc, detail |-> r.detail,
                    ret |-> r.ret]
        /\ UNCHANGED <<manifest, clock, intact, pending>>

RollbackCall(prompt_id, target_version) ==
    \E r \in {Rollback(registry, clock, prompt_id, target_version)} :
        /\ WithinBound(r.data)
        /\ registry' = r.data
        /\ last' = [op |-> "rollback", prompt_id |-> prompt_id,
                    target_version |-> target_version,
                    outcome |-> r.outcome, exc |-> r.exc, detail |-> r.detail,
                    ret |-> r.ret]
        /\ UNCHANGED <<manifest, clock, intact, pending>>

MigrateCall(prompt_id, dry_run) ==
    \E r \in {Migrate(registry, manifest, clock, prompt_id, dry_run)} :
        /\ WithinBound(r.data)
        /\ registry' = r.data
        /\ manifest' = r.manifest
        /\ last' = [op |-> "migrate", prompt_id |-> prompt_id,
                    dry_run |-> dry_run,
                    outcome |-> r.outcome, exc |-> r.exc, detail |-> r.detail,
                    ret |-> r.ret]
        /\ UNCHANGED <<clock, intact, pending>>

\* one call of get_prompt
GetCall(prompt_id) ==
    \E r \in {GetPrompt(registry, prompt_id)} :
        /\ registry' = r.data
        /\ last' = [op |-> "get_prompt", prompt_id |-> prompt_id,
                    outcome |-> r.outcome, exc |-> r.exc, detail |-> r.detail,
                    ret |-> r.ret]
        /\ UNCHANGED <<manifest, clock, intact, pending>>

\* one call of get_version_history
HistoryCall(prompt_id) ==
    \E r \in {GetVersionHistory(registry, prompt_id)} :
        /\ registry' = r.data
        /\ last' = [op |-> "get_version_history", prompt_id |-> prompt_id,
                    outcome |-> r.outcome, exc |-> r.exc, detail |-> r.detail,
                    ret |-> r.ret]
        /\ UNCHANGED <<manifest, clock, intact, pending>>

\* a real migrate of the id the call before it returned: the id of the record
\* create_prompt returned, or the target_prompt_id of the entry migrate returned
MigrateReturned ==
    /\ last.op \in {"create_prompt", "migrate"}
    /\ last.outcome = "ok"
    /\ \E prompt_id \in {IF last.op = "create_prompt" THEN last.ret.prompt_id
                          ELSE last.ret.target_prompt_id} :
          \E r \in {Migrate(registry, manifest, clock, prompt_id, FALSE)} :
              /\ registry' = r.data
              /\ manifest' = r.manifest
              /\ last' = [op |-> "migrate", prompt_id |-> prompt_id,
                          dry_run |-> FALSE,
                          outcome |-> r.outcome, exc |-> r.exc,
                          detail |-> r.detail, ret |-> r.ret]
              /\ UNCHANGED <<clock, intact, pending>>

\* time passes between two calls
Tick ==
    /\ clock < MaxClock
    /\ clock' = clock + 1
    /\ last' = [op |-> "tick", outcome |-> "ok"]
    /\ UNCHANGED <<registry, manifest, intact, pending>>

ListCall(domain, environment, agent_type) ==
    /\ last' = [op |-> "list_prompts", domain |-> domain,
                environment |-> environment, agent_type |-> agent_type,
                outcome |-> "ok",
                ret |-> ListPrompts(registry, domain, environment, agent_type)]
    /\ UNCHANGED <<registry, manifest, clock, intact, pending>>

IngestCall(op, result) ==
    \E r \in {result} :
        /\ WithinBound(r.data)
        /\ registry' = r.data
        /\ last' = [op |-> op, outcome |-> r.outcome, exc |-> r.exc,
                    ingested |-> r.ingested, skipped |-> r.skipped]
        /\ UNCHANGED <<manifest, clock, intact, pending>>

\* the loop of an ingestor over the prompts its producer hands it
IngestProduced(prompts) ==
    IngestCall("ingest_produced", IngestLoop(registry, clock, prompts, << >>, << >>))

IngestDfcx == IngestCall("ingest_dfcx_prompts", IngestDfcxPrompts(registry, clock))

IngestAdk == IngestCall("ingest_adk_prompts", IngestAdkPrompts(registry, clock))

IngestCustom == IngestCall("ingest_custom_prompts", IngestCustomPrompts(registry, clock))

\* the end of one run of the command line: the files it leaves, how it ended
CliEnd(op, args, d, m, end) ==
    /\ Entries(d) <= MaxCliEntries
    /\ registry' = d
    /\ manifest' = m
    /\ last' = [op |-> op, args |-> args, process |-> end.process,
                exc |-> end.exc, outcome |-> end.outcome,
                reported |-> end.reported]
    /\ UNCHANGED <<clock, intact, pending>>

\* python main.py --migrate --id <id> [--dry-run]
CliMigrate(id, dry_run) ==
    IF Strip(id) = << >>
    THEN CliEnd("main_migrate", [id |-> id, dry_run |-> dry_run],
                registry, manifest, Cancelled)
    ELSE \E r \in {Migrate(registry, manifest, clock, Strip(id), dry_run)} :
            CliEnd("main_migrate", [id |-> id, dry_run |-> dry_run],
                   r.data, r.manifest,
                   IF r.outcome # "ok" THEN Uncaught(r) ELSE Completed(<< >>))

\* python main.py --rollback --id <id> [--version <version>]; typed is the
\* number typed when --version is missing or zero ({} for a text that is not
\* a number)
CliRollback(id, version, typed) ==
    \E rb_ver \in {IF version # {} /\ TheValue(version) # 0 THEN version
                   ELSE IF Strip(id) # << >> THEN typed
                   ELSE version} :
        IF Strip(id) # << >> /\ rb_ver # {} /\ TheValue(rb_ver) # 0
        THEN \E r \in {RollbackDemo(registry, clock, Strip(id), TheValue(rb_ver))} :
                CliEnd("main_rollback",
                       [id |-> id, version |-> version, typed |-> typed],
                       r.data, manifest,
                       IF r.outcome # "ok" THEN Uncaught(r) ELSE Completed(<< >>))
        ELSE CliEnd("main_rollback",
                    [id |-> id, version |-> version, typed |-> typed],
                    registry, manifest, Cancelled)

\* run_full_demo: ingestion, the two listings, the dry run and the actual
\* migration in one try block, the manifest, then history, update, history,
\* rollback to v1 and history in a second try block
RunFullDemo(id, prompt_id) ==
    \E ingested \in {IngestAll(registry, clock)} :
    \E listed \in {ListPrompts(ingested.data, {}, {}, {})} :
    \E filtered \in {ListPrompts(ingested.data, {}, {DEV}, {})} :
    \E dry \in {Migrate(ingested.data, manifest, clock, prompt_id, TRUE)} :
    \E real \in {Migrate(dry.data, dry.manifest, clock, prompt_id, FALSE)} :
    \E migrated \in {FirstRaised(<<dry, real>>)} :
    \E history \in {ShowManifest(migrated.manifest)} :
    \E shown \in {ShowVersionHistory(migrated.data, prompt_id)} :
    \E updated \in {UpdatePrompt(migrated.data, clock, prompt_id, DemoContent.system_instructions, DemoContent.template, DemoNote, {})} :
    \E reshown \in {ShowVersionHistory(updated.data, prompt_id)} :
    \E rolled \in {RollbackDemo(updated.data, clock, prompt_id, 1)} :
    \E final \in {ShowVersionHistory(rolled.data, prompt_id)} :
    \E versioned \in {FirstRaised(<<shown, updated, reshown, rolled, final>>)} :
        IF ingested.outcome # "ok"
        THEN CliEnd("main_demo", [id |-> id], ingested.data, manifest,
                    Uncaught(ingested))
        ELSE CliEnd("main_demo", [id |-> id], versioned.data, migrated.manifest,
                    Completed(
                        (IF migrated.outcome # "ok"
                         THEN Reported("MIGRATION ERROR", migrated) ELSE << >>)
                        \o (IF versioned.outcome # "ok"
                            THEN Reported("VERSIONING ERROR", versioned)
                            ELSE << >>)))

\* python main.py --demo --id <id>
CliDemo(id) ==
    IF Strip(id) = << >>
    THEN CliEnd("main_demo", [id |-> id], registry, manifest, Cancelled)
    ELSE RunFullDemo(id, Strip(id))

---------------------------------------------------------------------------
(* The calls, access by access: a mutating call of the registry loads the  *)
(* file, changes the data in memory and saves the file (store.py:31-39); a *)
(* real migrate writes the registry and then the manifest (migrate.py:     *)
(* 152-194).  A process may stop between or inside these accesses, and     *)
(* another process may run between them.                                   *)

\* what a mutating call computes from the data it loaded: what it raises, or
\* what it returns and the data it is about to save
Computed(call, d, now) ==
    CASE call.op = "create_prompt" ->
             CreatePrompt(d, now, call.name, call.domain, call.agent_type,
                          call.environment, call.content.system_instructions,
                          call.content.template, {}, {})
      [] call.op = "update_prompt" ->
             UpdatePrompt(d, now, call.prompt_id, call.content.system_instructions,
                          call.content.template, call.change_note, {})
      [] call.op = "rollback" ->
             Rollback(d, now, call.prompt_id, call.target_version)

\* a faulty _save: only the record written last reaches the file
SavedLastOnly(old, data) ==
    [intact |-> TRUE, data |-> SubSeq(data, Len(data), Len(data))]

\* _save when it runs to its end: open(file, "w") empties the file and
\* json.dump writes the whole of data
Saved(old, data) == [intact |-> TRUE, data |-> data]

\* _save stopped at some point: before open() the file is as it was; after
\* open() it holds the part of the document written so far, here the first n
\* records with the document left open; after the last write it holds data
SaveStopped(old, data) ==
    {[intact |-> TRUE, data |-> old], [intact |-> TRUE, data |-> data]}
        \cup {[intact |-> FALSE, data |-> SubSeq(data, 1, n)] : n \in 0..(Len(data) - 1)}

\* a call that raised: the files are left as they are
Raised(w, call, outcome, exc) ==
    /\ last' = [op |-> call.op, call |-> call, process |-> w,
                outcome |-> outcome, exc |-> exc]
    /\ UNCHANGED <<registry, manifest, clock, intact, pending>>

\* process w enters a mutating call: _load, then the change in memory; json.load
\* raises when the file does not hold a whole document
Load(w, call) ==
    /\ pending[w] = Idle
    /\ IF ~intact
       THEN Raised(w, call, "CorruptStoreError", "JSONDecodeError")
       ELSE \E r \in {Computed(call, registry, clock)} :
               IF r.outcome # "ok"
               THEN Raised(w, call, r.outcome, r.exc)
               ELSE /\ WithinBound(r.data)
                    /\ pending' = [pending EXCEPT ![w] =
                                      [pc |-> "loaded", call |-> call,
                                       loaded |-> registry, data |-> r.data,
                                       ret |-> r.ret]]
                    /\ last' = [op |-> "load", call |-> call, process |-> w,
                                outcome |-> "ok"]
                    /\ UNCHANGED <<registry, manifest, clock, intact>>

\* process w reaches the end of the call: _save(data), then return
Save(w) ==
    /\ pending[w].pc = "loaded"
    /\ \E file \in {Saved(registry, pending[w].data)} :
          /\ registry' = file.data
          /\ intact' = file.intact
    /\ pending' = [pending EXCEPT ![w] = Idle]
    /\ last' = [op |-> pending[w].call.op, call |-> pending[w].call,
                process |-> w, outcome |-> "ok", exc |-> "",
                loaded |-> pending[w].loaded, before |-> registry,
                ret |-> pending[w].ret]
    /\ UNCHANGED <<manifest, clock>>

\* process w is stopped (killed, interrupted, powered off) in its call, at
\* some point of _save
InterruptSave(w) ==
    /\ pending[w].pc = "loaded"
    /\ \E file \in SaveStopped(registry, pending[w].data) :
          /\ registry' = file.data
          /\ intact' = file.intact
    /\ pending' = [pending EXCEPT ![w] = Idle]
    /\ last' = [op |-> "interrupted", call |-> pending[w].call, process |-> w,
                outcome |-> "interrupted", before |-> registry,
                after |-> pending[w].data]
    /\ UNCHANGED <<manifest, clock>>

\* process w runs a real migrate up to the end of step 6: the registry is
\* written, the entry is complete, the manifest is not yet loaded
MigrateStore(w, prompt_id) ==
    /\ pending[w] = Idle
    /\ IF ~intact
       THEN Raised(w, [op |-> "migrate", prompt_id |-> prompt_id, dry_run |-> FALSE],
                   "CorruptStoreError", "JSONDecodeError")
       ELSE \E r \in {Migrate(registry, manifest, clock, prompt_id, FALSE)} :
               IF r.outcome # "ok"
               THEN Raised(w, [op |-> "migrate", prompt_id |-> prompt_id, dry_run |-> FALSE],
                           r.outcome, r.exc)
               ELSE /\ WithinBound(r.data)
                    /\ registry' = r.data
                    /\ pending' = [pending EXCEPT ![w] =
                                      [pc |-> "stored",
                                       call |-> [op |-> "migrate",
                                                 prompt_id |-> prompt_id,
                                                 dry_run |-> FALSE],
                                       loaded |-> registry, entry |-> r.ret]]
                    /\ last' = [op |-> "store", process |-> w, outcome |-> "ok",
                                call |-> [op |-> "migrate", prompt_id |-> prompt_id,
                                          dry_run |-> FALSE]]
                    /\ UNCHANGED <<manifest, clock, intact>>

\* step 7 of the migrate of process w: the manifest is loaded, the entry
\* appended, the manifest saved, the entry returned
MigrateRecord(w) ==
    /\ pending[w].pc = "stored"
    /\ manifest' = AppendToManifest(manifest, pending[w].entry)
    /\ pending' = [pending EXCEPT ![w] = Idle]
    /\ last' = [op |-> "migrate", call |-> pending[w].call, process |-> w,
                prompt_id |-> pending[w].call.prompt_id, dry_run |-> FALSE,
                outcome |-> "ok", exc |-> "", before |-> pending[w].loaded,
                ret |-> pending[w].entry]
    /\ UNCHANGED <<registry, clock, intact>>

\* process w is stopped between step 6 and step 7 of its migrate
Crash(w) ==
    /\ pending[w].pc = "stored"
    /\ pending' = [pending EXCEPT ![w] = Idle]
    /\ last' = [op |-> "crashed", call |-> pending[w].call, process |-> w,
                outcome |-> "crashed", before |-> pending[w].loaded,
                entry |-> pending[w].entry]
    /\ UNCHANGED <<registry, manifest, clock, intact>>

\* one call of _generate_prompt_id on each of the two tuples drawn
DeriveIds ==
    /\ last.op = "drawn"
    /\ last' = [op |-> "generate_prompt_id", a |-> last.a, b |-> last.b,
                outcome |-> "ok",
                id_a |-> GeneratePromptId(last.a.name, last.a.domain,
                                          last.a.agent_type, last.a.environment),
                id_b |-> GeneratePromptId(last.b.name, last.b.domain,
                                          last.b.agent_type, last.b.environment)]
    /\ UNCHANGED <<registry, manifest, clock, intact, pending>>

\* _get_base_prompt_id on the id drawn, and _build_env_prompt_id on it: once
\* with each environment drawn, and with the second on the result of the first
SuffixIds ==
    /\ last.op = "drawn_id"
    /\ last' = [op |-> "env_suffix", id |-> last.id, e1 |-> last.e1,
                e2 |-> last.e2, outcome |-> "ok",
                base |-> GetBasePromptId(last.id),
                once |-> BuildEnvPromptId(last.id, last.e1),
                direct |-> BuildEnvPromptId(last.id, last.e2),
                twice |-> BuildEnvPromptId(BuildEnvPromptId(last.id, last.e1),
                                           last.e2)]
    /\ UNCHANGED <<registry, manifest, clock, intact, pending>>

---------------------------------------------------------------------------
(* The inputs of the calls.                                                *)

PAY == <<"p", "a", "y">>

\* values outside the closed sets of config.py
SALES == <<"s", "a", "l", "e", "s">>
BOT == <<"b", "o", "t">>
UAT == <<"u", "a", "t">>

\* an id that no record carries
MissingId == <<"n", "o", "n", "e">>

EnvSet == {ENVIRONMENTS[i] : i \in 1..Len(ENVIRONMENTS)}

ContentA == [system_instructions |-> "instructions A", template |-> "template A"]

ContentB == [system_instructions |-> "instructions B", template |-> "template B"]

Contents == {ContentA, ContentB}

\* model parameters a caller supplies: none (None), the empty dict, a dict
ParamsB ==
    [model |-> "gemini-1.5-flash", temperature |-> "0.1",
     max_output_tokens |-> "256", top_p |-> "0.5", top_k |-> "10"]

EmptyParams == [k \in {} |-> ""]

ParamsArgs == {{}, {EmptyParams}, {ParamsB}}

UpdatedNote == <<"U", "p", "d", "a", "t", "e", "d", " ", "v", "e", "r", "s", "i", "o", "n">>

\* the ids a caller names: those of the stored records, and one of no record
StoredOrMissing == KeySet(registry) \cup {MissingId}

\* the ids a caller of migrate names: with or without the environment suffix
WithOrWithoutSuffix ==
    StoredOrMissing \cup {GetBasePromptId(i) : i \in KeySet(registry)}

\* the target versions a caller of rollback names for a stored record: from
\* below the first version to one past the current one
AroundVersions(prompt_id) ==
    IF HasKey(registry, prompt_id)
    THEN (0 - 1)..(Get(registry, prompt_id).current_version + 1)
    ELSE {INITIAL_VERSION}

---------------------------------------------------------------------------
(* Spec: the registry and the migration engine, called with valid fields.  *)

Next ==
    \/ \E environment \in EnvSet :
          Create(PAY, BILLING, DFCX, environment, ContentA, {}, {})
    \/ \E prompt_id \in StoredOrMissing :
          Update(prompt_id, ContentB, UpdatedNote, {})
    \/ \E prompt_id \in StoredOrMissing :
          \E target_version \in AroundVersions(prompt_id) :
              RollbackCall(prompt_id, target_version)
    \/ \E prompt_id \in WithOrWithoutSuffix, dry_run \in BOOLEAN :
          MigrateCall(prompt_id, dry_run)

Spec == Init /\ [][Next]_vars

---------------------------------------------------------------------------
(* SpecStore: the registry alone, called with fields inside and outside    *)
(* the closed sets and with target versions of every kind.  The create     *)
(* call of the name "qa" in the domain "billing_pay" with no environment   *)
(* derives the id of the record "pay" of billing in qa.                    *)

NextStore ==
    \/ \E domain \in {BILLING, SALES}, agent_type \in {DFCX, BOT},
          environment \in {QA, UAT, << >>}, content \in Contents :
          Create(PAY, domain, agent_type, environment, content, {}, {})
    \/ Create(QA, BILLING \o US \o PAY, DFCX, << >>, ContentA, {}, {})
    \/ \E prompt_id \in StoredOrMissing, content \in Contents,
          model_parameters \in ParamsArgs :
          Update(prompt_id, content, UpdatedNote, model_parameters)
    \/ \E prompt_id \in StoredOrMissing,
          target_version \in (0 - 1)..(MaxEntries + 1) :
          RollbackCall(prompt_id, target_version)

SpecStore == Init /\ [][NextStore]_vars

---------------------------------------------------------------------------
(* SpecPromote: promotions alone, of records whose name does or does not   *)
(* end in an environment token, by ids with or without the suffix.         *)

PAY_QA == PAY \o US \o QA

NextPromote ==
    \/ \E name \in {PAY, PAY_QA}, environment \in EnvSet :
          Create(name, BILLING, DFCX, environment, ContentA, {}, {})
    \/ \E prompt_id \in WithOrWithoutSuffix, dry_run \in BOOLEAN :
          MigrateCall(prompt_id, dry_run)

SpecPromote == Init /\ [][NextPromote]_vars

---------------------------------------------------------------------------
(* SpecTimed: promotions of records created in dev and qa, while the clock *)
(* advances between the calls.                                             *)

NextTimed ==
    \/ Tick
    \/ \E name \in {PAY, PAY_QA} :
          Create(name, BILLING, DFCX, DEV, ContentA, {}, {})
    \/ Create(PAY, BILLING, DFCX, QA, ContentB, {}, {})
    \/ \E prompt_id \in KeySet(registry), dry_run \in BOOLEAN :
          MigrateCall(prompt_id, dry_run)

SpecTimed == Init /\ [][NextTimed]_vars

---------------------------------------------------------------------------
(* SpecCarry: promotions of a record that carries model parameters and     *)
(* metadata of its own, to a target that is absent or was created apart,   *)
(* with updates that change the parameters in between.                     *)

\* the metadata an ingestor passes to create_prompt
MetaA == [source_agent |-> "telecom-billing-agent-v2", extracted_by |-> "dfcx_ingestor"]

NextCarry ==
    \/ \E model_parameters \in {{}, {ParamsB}}, metadata \in {{}, {MetaA}} :
          Create(PAY, BILLING, DFCX, DEV, ContentA, model_parameters, metadata)
    \/ Create(PAY, BILLING, DFCX, QA, ContentB, {}, {})
    \/ \E prompt_id \in KeySet(registry), model_parameters \in {{}, {ParamsB}} :
          Update(prompt_id, ContentB, UpdatedNote, model_parameters)
    \/ \E prompt_id \in KeySet(registry), dry_run \in BOOLEAN :
          MigrateCall(prompt_id, dry_run)

SpecCarry == Init /\ [][NextCarry]_vars

---------------------------------------------------------------------------
(* SpecRead: a record is created, updated and rolled back while the clock  *)
(* advances, and read in between, as are ids of no record.                 *)

NextRead ==
    \/ Tick
    \/ \E metadata \in {{}, {MetaA}} :
          Create(PAY, BILLING, DFCX, DEV, ContentA, {}, metadata)
    \/ \E prompt_id \in KeySet(registry), model_parameters \in {{}, {ParamsB}} :
          Update(prompt_id, ContentB, UpdatedNote, model_parameters)
    \/ \E prompt_id \in KeySet(registry) : RollbackCall(prompt_id, INITIAL_VERSION)
    \/ \E prompt_id \in StoredOrMissing : GetCall(prompt_id)

SpecRead == Init /\ [][NextRead]_vars

---------------------------------------------------------------------------
(* SpecHistory: records are created, updated and rolled back, and the      *)
(* history of a stored record, or of no record, is asked for in between.   *)

NextHistory ==
    \/ \E environment \in {DEV, QA} :
          Create(PAY, BILLING, DFCX, environment, ContentA, {}, {})
    \/ \E prompt_id \in KeySet(registry) :
          Update(prompt_id, ContentB, UpdatedNote, {})
    \/ \E prompt_id \in KeySet(registry) :
          \E target_version \in AroundVersions(prompt_id) :
              RollbackCall(prompt_id, target_version)
    \/ \E prompt_id \in StoredOrMissing : HistoryCall(prompt_id)

SpecHistory == Init /\ [][NextHistory]_vars

---------------------------------------------------------------------------
(* SpecChain: one prompt is created in dev in an empty registry and then   *)
(* promoted again and again, each call given the id the last one returned. *)

NextChain ==
    \/ /\ registry = EmptyDict
       /\ \E name \in {PAY, PAY_QA},
             domain \in {DOMAINS[i] : i \in 1..Len(DOMAINS)},
             agent_type \in {AGENT_TYPES[i] : i \in 1..Len(AGENT_TYPES)},
             content \in Contents :
             Create(name, domain, agent_type, DEV, content, {}, {})
    \/ MigrateReturned

SpecChain == Init /\ [][NextChain]_vars

---------------------------------------------------------------------------
(* SpecIngest: the ingestors fill the registry; promotions spread it over  *)
(* the environments; list_prompts reads it.                                *)

DomainFilters == {{}, {<< >>}, {BILLING}, {SHARED}, {SALES}}

EnvironmentFilters == {{}, {<< >>}, {DEV}, {QA}}

AgentTypeFilters == {{}, {CUSTOM}, {ADK}}

\* what a producer hands over when a sample is outside the closed sets: the
\* dfcx sample with the domain "sales", then the adk sample
OutsideSamplePrompts ==
    <<[DfcxSamplePrompts[1] EXCEPT !.domain = SALES]>> \o AdkSamplePrompts

NextIngest ==
    \/ IngestDfcx
    \/ IngestAdk
    \/ IngestCustom
    \/ \E prompt_id \in KeySet(registry) :
          Update(prompt_id, ContentB, UpdatedNote, {})
    \/ \E prompt_id \in KeySet(registry) :
          MigrateCall(prompt_id, FALSE)
    \/ \E domain \in DomainFilters, environment \in EnvironmentFilters,
          agent_type \in AgentTypeFilters :
          ListCall(domain, environment, agent_type)

    \/ IngestProduced(OutsideSamplePrompts)

SpecIngest == Init /\ [][NextIngest]_vars

---------------------------------------------------------------------------
(* SpecClosed: records come into the registry by the three ways there are, *)
(* a create call, an ingestor and a promotion, and the create calls and    *)
(* the producer of the ingestor also offer fields outside the closed sets. *)

NextClosed ==
    \/ \E domain \in {BILLING, SALES}, agent_type \in {DFCX, BOT},
          environment \in {DEV, PROD, UAT, << >>} :
          Create(PAY, domain, agent_type, environment, ContentA, {}, {})
    \/ IngestDfcx
    \/ IngestProduced(OutsideSamplePrompts)
    \/ \E prompt_id \in KeySet(registry), dry_run \in BOOLEAN :
          MigrateCall(prompt_id, dry_run)

SpecClosed == Init /\ [][NextClosed]_vars

---------------------------------------------------------------------------
(* SpecCli: runs of the command line, one after the other, on the registry *)
(* and the manifest the runs before them left.                             *)

BLANK == <<" ">>

\* the id under which the dfcx sample is stored in dev
BillingDevId ==
    GeneratePromptId(DfcxSamplePrompts[1].name, BILLING, DFCX, DEV)

\* the --id of a run: the id of the dfcx sample in dev, bare or between
\* blanks, its id in qa, an id the registry never holds, or blanks alone
CliIds ==
    {BillingDevId, BLANK \o BillingDevId \o BLANK,
     BuildEnvPromptId(GetBasePromptId(BillingDevId), QA),
     MissingId, BLANK \o BLANK}

NextCli ==
    \/ \E id \in CliIds, dry_run \in BOOLEAN : CliMigrate(id, dry_run)
    \/ \E id \in CliIds, version \in {{}, {0}, {1}, {2}}, typed \in {{}, {1}} :
          CliRollback(id, version, typed)
    \/ \E id \in CliIds : CliDemo(id)

SpecCli == Init /\ [][NextCli]_vars

---------------------------------------------------------------------------
(* SpecCrash: one process makes its calls access by access and may be      *)
(* stopped inside a save of the registry or between the two writes of a    *)
(* real migrate; the next calls find the files as the stop left them.      *)

\* the mutating calls of the registry a process makes
MutatingCalls ==
    {[op |-> "create_prompt", name |-> name, domain |-> BILLING,
      agent_type |-> DFCX, environment |-> DEV, content |-> ContentA] :
        name \in {PAY, PAY_QA}}
    \cup {[op |-> "update_prompt", prompt_id |-> prompt_id, content |-> ContentB,
           change_note |-> UpdatedNote] : prompt_id \in KeySet(registry)}
    \cup {[op |-> "rollback", prompt_id |-> prompt_id, target_version |-> 1] :
             prompt_id \in KeySet(registry)}

NextCrash ==
    \/ \E call \in MutatingCalls : Load(1, call)
    \/ Save(1)
    \/ InterruptSave(1)
    \/ \E prompt_id \in KeySet(registry) : MigrateStore(1, prompt_id)
    \/ MigrateRecord(1)
    \/ Crash(1)

SpecCrash == Init /\ [][NextCrash]_vars

---------------------------------------------------------------------------
(* SpecWriters: two processes call the registry on the same file; each     *)
(* call loads, then saves, and the other process may run in between.       *)

\* the content process w writes
ContentOf(w) == IF w = 1 THEN ContentA ELSE ContentB

\* the mutating calls process w makes
WriterCalls(w) ==
    {[op |-> "create_prompt", name |-> PAY, domain |-> BILLING,
      agent_type |-> DFCX, environment |-> IF w = 1 THEN DEV ELSE QA,
      content |-> ContentOf(w)]}
    \cup {[op |-> "update_prompt", prompt_id |-> prompt_id,
           content |-> ContentOf(w), change_note |-> UpdatedNote] :
             prompt_id \in KeySet(registry)}
    \cup {[op |-> "rollback", prompt_id |-> prompt_id, target_version |-> 1] :
             prompt_id \in KeySet(registry)}

NextWriters ==
    \/ \E w \in Processes : \E call \in WriterCalls(w) : Load(w, call)
    \/ \E w \in Processes : Save(w)

SpecWriters == Init /\ [][NextWriters]_vars

---------------------------------------------------------------------------
(* SpecIds: _generate_prompt_id applied to two tuples of valid fields.     *)

\* the characters names are made of: a letter in both cases, a space, the
\* separator
NameChars == {"a", "A", " ", "_"}

\* the names of at most n characters
RECURSIVE NamesUpTo(_)
NamesUpTo(n) ==
    IF n = 0 THEN {<< >>}
    ELSE NamesUpTo(n - 1)
             \cup {Append(s, c) : s \in {t \in NamesUpTo(n - 1) : Len(t) = n - 1},
                                  c \in NameChars}

\* names within the length bound: the short ones, and names that end in an
\* environment token
IdNames == (NamesUpTo(MaxNameLen) \ {<< >>}) \cup {QA, PAY \o US \o QA, PAY \o US \o DEV}

\* the tuples create_prompt accepts
IdTuples ==
    {[name |-> name, domain |-> domain, agent_type |-> agent_type,
      environment |-> environment] :
        name \in IdNames, domain \in {BILLING, TECH_SUPPORT},
        agent_type \in {DFCX, CUSTOM}, environment \in {DEV, QA}}

InitIds ==
    /\ registry = EmptyDict
    /\ manifest = << >>
    /\ clock = 0
    /\ intact = TRUE
    /\ pending = [w \in Processes |-> Idle]
    /\ last \in {[op |-> "drawn", a |-> a, b |-> b, outcome |-> "ok"] :
                    a \in IdTuples, b \in IdTuples}

NextIds == DeriveIds

SpecIds == InitIds /\ [][NextIds]_vars

---------------------------------------------------------------------------
(* SpecSuffix: the suffix functions applied to an id and two environments. *)

\* what the ids start with: nothing, a word, a word that ends in the letters
\* of an environment without the separator, a word that ends in the
\* separator, a word that ends in an environment in capitals
SuffixStems ==
    {<< >>, PAY, PAY \o QA, PAY \o US, PAY \o US \o <<"Q", "A">>}

\* s followed by at most n environment suffixes
RECURSIVE WithSuffixes(_, _)
WithSuffixes(s, n) ==
    IF n = 0 THEN {s}
    ELSE {s} \cup UNION {WithSuffixes(s \o US \o e, n - 1) : e \in EnvSet}

SuffixedIds == UNION {WithSuffixes(s, MaxSuffixes) : s \in SuffixStems}

InitSuffix ==
    /\ registry = EmptyDict
    /\ manifest = << >>
    /\ clock = 0
    /\ intact = TRUE
    /\ pending = [w \in Processes |-> Idle]
    /\ last \in {[op |-> "drawn_id", id |-> id, e1 |-> e1, e2 |-> e2,
                  outcome |-> "ok"] :
                    id \in SuffixedIds, e1 \in EnvSet, e2 \in EnvSet}

NextSuffix == SuffixIds

SpecSuffix == InitSuffix /\ [][NextSuffix]_vars

---------------------------------------------------------------------------
(* Properties of the registry: versions.                                   *)

\* the version keys of a record are str(1) .. str(current_version), each once
ContiguousVersions(prompt) ==
    /\ Len(prompt.versions) = prompt.current_version
    /\ KeySet(prompt.versions) = {IntToStr(k) : k \in 1..prompt.current_version}

\* what a version entry holds for good
Held(entry) == <<entry.system_instructions, entry.template, entry.change_note>>

\* new keeps every version entry of old, and its current_version is not lower
HistoryKept(old, new) ==
    /\ new.current_version >= old.current_version
    /\ \A k \in KeySet(old.versions) :
          /\ HasKey(new.versions, k)
          /\ Held(Get(new.versions, k)) = Held(Get(old.versions, k))

\* new has the entries of old and one more, numbered old.current_version + 1
OneEntryAdded(old, new) ==
    /\ new.current_version = old.current_version + 1
    /\ Len(new.versions) = Len(old.versions) + 1
    /\ KeySet(new.versions) =
          KeySet(old.versions) \cup {IntToStr(old.current_version + 1)}

AppendOnlyStep ==
    /\ \A id \in KeySet(registry) :
          /\ HasKey(registry', id)
          /\ HistoryKept(Get(registry, id), Get(registry', id))
    /\ (last'.op \in {"update_prompt", "rollback"} /\ last'.outcome = "ok") =>
          /\ OneEntryAdded(Get(registry, last'.prompt_id),
                           Get(registry', last'.prompt_id))
          /\ Entries(registry') = Entries(registry) + 1

\* C1: after any sequence of create, update, rollback and migrate calls the
\* version keys of every record are exactly 1..current_version; a successful
\* update or rollback adds exactly one entry, numbered the previous
\* current_version + 1; no step lowers a current_version, removes an entry or
\* changes the system_instructions, template or change_note of an entry.
C1_AppendOnlyVersioning ==
    /\ [](\A i \in 1..Len(registry) : ContiguousVersions(registry[i].val))
    /\ [][AppendOnlyStep]_vars

\* a rollback has just added the third entry of a record that an update
\* had versioned before
C1_Witness ==
    /\ last.op = "rollback"
    /\ last.outcome = "ok"
    /\ Get(registry, last.prompt_id).current_version = 3
    /\ Get(Get(registry, last.prompt_id).versions, IntToStr(2)).change_note
          = UpdatedNote

\* "Rollback to v{v}"
RollbackToV(v) ==
    <<"R", "o", "l", "l", "b", "a", "c", "k", " ", "t", "o", " ", "v">>
    \o IntToStr(v)

RollbackStep ==
    (/\ last'.op = "rollback"
     /\ HasKey(registry, last'.prompt_id)
     /\ last'.target_version
           \in 1..Get(registry, last'.prompt_id).current_version) =>
        LET v == last'.target_version
            old == Get(registry, last'.prompt_id)
            new == Get(registry', last'.prompt_id)
            target == Get(old.versions, IntToStr(v))
            active == Get(new.versions, IntToStr(new.current_version))
        IN  /\ last'.outcome = "ok"
            /\ new.current_version = old.current_version + 1
            /\ active.system_instructions = target.system_instructions
            /\ active.template = target.template
            /\ active.change_note = RollbackToV(v)
            /\ HasKey(new.versions, IntToStr(v))
            /\ Get(new.versions, IntToStr(v)) = target
            /\ new.current_version # v

\* C2: rollback(id, v) of a version v the record has makes current_version the
\* previous current_version + 1; the new active version carries the
\* system_instructions and template of version v and the change_note
\* "Rollback to v{v}"; version v is still there, unchanged, and is not the
\* current one.
C2_RollbackCorrect == [][RollbackStep]_vars

\* a rollback has just brought back content that differs from the content
\* that was active before it
C2_Witness ==
    /\ last.op = "rollback"
    /\ last.outcome = "ok"
    /\ LET new == Get(registry, last.prompt_id)
       IN  Get(new.versions, IntToStr(new.current_version)).template
              # Get(new.versions, IntToStr(new.current_version - 1)).template

---------------------------------------------------------------------------
(* Properties of the migration engine.                                     *)

\* the fixed order of promotion
PromotionOrder == <<DEV, QA, STAGING, PROD>>

\* the environment right after e in the order of promotion
SuccessorOf(e) ==
    PromotionOrder[1 + CHOOSE i \in 1..Len(PromotionOrder) : PromotionOrder[i] = e]

PromotionStep ==
    (last'.op = "migrate" /\ Resolve(registry, last'.prompt_id) # {}) =>
        LET source == Get(registry, TheValue(Resolve(registry, last'.prompt_id)))
            E == source.environment
        IN  IF E = PROD
            THEN /\ last'.outcome = "TerminalEnvironmentError"
                 /\ registry' = registry
            ELSE /\ last'.outcome # "TerminalEnvironmentError"
                 /\ last'.outcome = "ok" =>
                       /\ last'.ret.source_env = E
                       /\ last'.ret.target_env = SuccessorOf(E)
                 /\ \A i \in 1..Len(registry') :
                       (i > Len(registry) \/ registry'[i] # registry[i]) =>
                           registry'[i].val.environment = SuccessorOf(E)

\* C3: a migrate call, dry or real, that resolves to a record in environment
\* E returns an entry with source_env = E and target_env = the successor of E
\* in dev, qa, staging, prod; every record the call creates or versions is in
\* that successor; when E is prod the call fails with TerminalEnvironmentError.
C3_PromotionMonotonic == [][PromotionStep]_vars

\* a real migrate has just added a second version to a record in prod
C3_Witness ==
    /\ last.op = "migrate"
    /\ last.outcome = "ok"
    /\ ~last.dry_run
    /\ last.ret.target_env = PROD
    /\ last.ret.target_version = {2}

SourceKeptStep ==
    (last'.op = "migrate" /\ Resolve(registry, last'.prompt_id) # {}) =>
        LET source_id == TheValue(Resolve(registry, last'.prompt_id))
            old == Get(registry, source_id)
        IN  /\ HasKey(registry', source_id)
            /\ LET new == Get(registry', source_id)
               IN  /\ new.versions = old.versions
                   /\ new.current_version = old.current_version
                   /\ new.model_parameters = old.model_parameters
                   /\ new.metadata = old.metadata
                   /\ new.environment = old.environment
                   /\ new.updated_at = old.updated_at
            /\ \A i \in 1..Len(registry') :
                  (i > Len(registry) \/ registry'[i] # registry[i]) =>
                      registry'[i].key # source_id

\* C12: a migrate call, dry or real, succeeding or failing, leaves the
\* versions, current_version, model_parameters, metadata, environment and
\* updated_at of the resolved source record as they were; the record a real
\* run writes has an id other than the id of the source.
C12_SourceKept == [][SourceKeptStep]_vars

\* a real migrate has just written, later than the last write to its source
C12_Witness ==
    /\ last.op = "migrate"
    /\ last.outcome = "ok"
    /\ ~last.dry_run
    /\ Get(registry, last.ret.source_prompt_id).updated_at # Timestamp(clock)
    /\ \E i \in 1..Len(registry) : registry[i].val.updated_at = Timestamp(clock)

\* where new differs from old: the records written
Written(old, new) ==
    {i \in 1..Len(new) : i > Len(old) \/ new[i] # old[i]}

RealRunStep ==
    (last'.op = "migrate" /\ ~last'.dry_run /\ last'.outcome = "ok") =>
        LET entry == last'.ret
            source == Get(registry, entry.source_prompt_id)
            content == Get(source.versions, IntToStr(source.current_version))
            in_target ==
                {i \in 1..Len(registry) :
                    /\ registry[i].key = entry.target_prompt_id
                    /\ registry[i].val.environment = entry.target_env}
        IN  /\ Cardinality(Written(registry, registry')) = 1
            /\ Len(registry') = Len(registry) + (IF in_target = {} THEN 1 ELSE 0)
            /\ \A i \in Written(registry, registry') :
                  LET target == registry'[i].val
                      active == Get(target.versions,
                                    IntToStr(target.current_version))
                  IN  /\ IF in_target # {}
                         THEN /\ i \in in_target
                              /\ OneEntryAdded(registry[i].val, target)
                              /\ HistoryKept(registry[i].val, target)
                         ELSE /\ i = Len(registry) + 1
                              /\ target.current_version = 1
                              /\ Len(target.versions) = 1
                      /\ target.environment = entry.target_env
                      /\ active.system_instructions = content.system_instructions
                      /\ active.template = content.template
                      /\ entry.target_version = {target.current_version}
            /\ entry.status = "success"
            /\ manifest' = Append(manifest, entry)

\* C13: a successful real migrate either appends exactly one version to the
\* record stored under the target id in the target environment or, when there
\* is none, creates exactly one record there at version 1; the active
\* system_instructions and template of the record written are those the
\* source had active at the call; the entry returned has status "success" and
\* the current_version of the record written as target_version, and is the
\* last entry of the manifest file.
C13_RealRunOutcome == [][RealRunStep]_vars

\* a real migrate has just added a second version, with other content than
\* the first, to a record that was there
C13_Witness ==
    /\ last.op = "migrate"
    /\ last.outcome = "ok"
    /\ ~last.dry_run
    /\ last.ret.target_version = {2}
    /\ LET target == Get(registry, last.ret.target_prompt_id)
       IN  Get(target.versions, IntToStr(1)).template
              # Get(target.versions, IntToStr(2)).template

\* the id without its "_dev", "_qa", "_staging" or "_prod" ending, if it has one
Stripped(id) ==
    IF \E e \in {DEV, QA, STAGING, PROD} : EndsWith(id, <<"_">> \o e)
    THEN LET e == CHOOSE e \in {DEV, QA, STAGING, PROD} : EndsWith(id, <<"_">> \o e)
         IN  SubSeq(id, 1, Len(id) - Len(e) - 1)
    ELSE id

ResolutionStep ==
    last'.op = "migrate" =>
        LET id == last'.prompt_id
            sharing == {i \in 1..Len(registry) :
                           Stripped(registry[i].key) = Stripped(id)}
            first == CHOOSE i \in sharing : \A j \in sharing : i <= j
            source_id == IF HasKey(registry, id) THEN id ELSE registry[first].key
        IN  /\ last'.outcome = "NotFoundError" <=> sharing = {}
            /\ last'.outcome = "NotFoundError" =>
                  registry' = registry /\ manifest' = manifest
            /\ last'.outcome = "ok" => last'.ret.source_prompt_id = source_id
            /\ last'.outcome = "TerminalEnvironmentError" =>
                  last'.detail = source_id

\* C14: migrate takes the record stored under the given id as its source,
\* also when other records share its base id; when no record has the given
\* id, it takes the first record in insertion order whose base id is the base
\* id of the input; it fails with NotFoundError, store and manifest unchanged,
\* exactly when no stored record has that base id.
C14_Resolution == [][ResolutionStep]_vars

\* migrate has just taken the record of the given id, though a record stored
\* before it has the same base id
C14_Witness ==
    /\ last.op = "migrate"
    /\ last.outcome = "ok"
    /\ last.ret.source_prompt_id = last.prompt_id
    /\ \E i, j \in 1..Len(registry) :
          /\ i < j
          /\ registry[j].key = last.prompt_id
          /\ Stripped(registry[i].key) = Stripped(last.prompt_id)

ManifestStep ==
    /\ Len(manifest') >= Len(manifest)
    /\ SubSeq(manifest', 1, Len(manifest)) = manifest
    /\ Len(manifest') <= Len(manifest) + 1
    /\ last'.op \in {"create_prompt", "update_prompt", "rollback"} =>
          manifest' = manifest

\* C15: over any sequence of calls the manifest file only grows, by an entry
\* appended at its end; every entry it holds stays at its position with all
\* fields unchanged; create, update and rollback never change it.
C15_ManifestAppendOnly == [][ManifestStep]_vars

\* a real migrate has just appended the second entry of the manifest
C15_Witness ==
    /\ last.op = "migrate"
    /\ last.outcome = "ok"
    /\ Len(manifest) = 2
    /\ manifest[2] = last.ret
    /\ manifest[1] # manifest[2]

TargetIdStep ==
    (last'.op = "migrate" /\ ~last'.dry_run /\ last'.outcome = "ok") =>
        LET entry == last'.ret
            source == Get(registry, entry.source_prompt_id)
        IN  /\ HasKey(registry', entry.target_prompt_id)
            /\ LET target == Get(registry', entry.target_prompt_id)
               IN  /\ target.environment = entry.target_env
                   /\ target.agent_type = source.agent_type
                   /\ target.domain = source.domain
                   /\ target.name = source.name

\* C20: after every successful real migrate, the target_prompt_id of the
\* entry is the id of a record of the registry whose environment is the
\* entry's target_env and whose agent_type, domain and name are those of the
\* source record: the id migrate computes from the stripped base id is the id
\* under which the target was stored, whatever the name of the record.
C20_TargetIdStored == [][TargetIdStep]_vars

\* where d holds the prompt of the record source in the environment env
Promoted(d, source, env) ==
    {i \in 1..Len(d) : /\ d[i].val.name = source.name
                       /\ d[i].val.domain = source.domain
                       /\ d[i].val.agent_type = source.agent_type
                       /\ d[i].val.environment = env}

RepeatedPromotionStep ==
    (/\ last'.op = "migrate"
     /\ ~last'.dry_run
     /\ Resolve(registry, last'.prompt_id) # {}
     /\ last'.outcome # "TerminalEnvironmentError") =>
        LET source == Get(registry, TheValue(Resolve(registry, last'.prompt_id)))
            target_env == SuccessorOf(source.environment)
            before == Promoted(registry, source, target_env)
            after == Promoted(registry', source, target_env)
        IN  /\ last'.outcome # "AlreadyExistsError"
            /\ Cardinality(after) = 1
            /\ before # {} =>
                  /\ after = before
                  /\ Len(registry') = Len(registry)
                  /\ \A i \in before :
                        OneEntryAdded(registry[i].val, registry'[i].val)

\* C16: a real migrate of a source record, however often repeated, never
\* fails with AlreadyExistsError and never leaves a second record of that
\* prompt in the target environment: the first call creates the target
\* record, every later call appends exactly one version to that record; for
\* every valid name, also one that ends in an environment token like "_qa".
C16_IdempotentPromotion == [][RepeatedPromotionStep]_vars

\* the environments that hold a record of the prompt of the first record
EnvironmentsReached ==
    {e \in {DEV, QA, STAGING, PROD} : Promoted(registry, registry[1].val, e) # {}}

\* C17: from a prompt that exists only in dev, successive real migrate calls,
\* each given the target id the call before returned, put its records in qa,
\* then staging, then prod, one environment per call, and the fourth call, on
\* the prod id, fails with TerminalEnvironmentError.  The manifest counts the
\* calls that succeeded: after n of them the prompt has records in exactly
\* the first n + 1 environments, and a call fails only as the fourth, with
\* TerminalEnvironmentError.
C17_OneHopPerCall ==
    last.op = "migrate" =>
        LET n == Len(manifest)
        IN  /\ n <= 3
            /\ EnvironmentsReached = {PromotionOrder[k] : k \in 1..(n + 1)}
            /\ Len(registry) = n + 1
            /\ \A k \in 1..n :
                  /\ manifest[k].source_env = PromotionOrder[k]
                  /\ manifest[k].target_env = PromotionOrder[k + 1]
            /\ last.outcome # "ok" =>
                  n = 3 /\ last.outcome = "TerminalEnvironmentError"

DryRunStep ==
    (last'.op = "migrate" /\ last'.dry_run) =>
        /\ registry' = registry
        /\ last'.outcome = "ok" =>
              /\ last'.ret.status = "dry_run"
              /\ last'.ret.target_version = {}

\* C4: migrate(id, dry_run = True) leaves the registry as it was, whatever the
\* id and however often it is called; the entry it returns has status
\* "dry_run" and target_version None.
C4_DryRunKeepsStore == [][DryRunStep]_vars

\* a dry run has just returned an entry for a target that is not in the registry
C4_Witness ==
    /\ last.op = "migrate"
    /\ last.dry_run
    /\ last.outcome = "ok"
    /\ last.ret.status = "dry_run"
    /\ ~HasKey(registry, last.ret.target_prompt_id)

DryRunRecordedStep ==
    (last'.op = "migrate" /\ last'.dry_run /\ last'.outcome = "ok") =>
        /\ Len(ShowManifest(manifest')) = Len(ShowManifest(manifest)) + 1
        /\ LET appended == manifest'[Len(manifest')]
           IN  appended.dry_run /\ appended.status = "dry_run"

\* C5: every dry run that passes resolution and the terminal check appends one
\* entry with dry_run = true and status "dry_run" to the manifest file, so the
\* manifest show_manifest reads grows by one entry per dry run.
C5_DryRunRecorded == [][DryRunRecordedStep]_vars

---------------------------------------------------------------------------
(* Properties of list_prompts and of the ingestors.                        *)

\* a filter is supplied when the argument is not None
Supplied(opt) == opt # {}

\* the record has the value of every supplied filter
MatchesSupplied(prompt, domain, environment, agent_type) ==
    /\ Supplied(domain) => prompt.domain = TheValue(domain)
    /\ Supplied(environment) => prompt.environment = TheValue(environment)
    /\ Supplied(agent_type) => prompt.agent_type = TheValue(agent_type)

\* C6: in every reachable state and for every combination of filters,
\* list_prompts returns exactly the records that match every supplied filter:
\* each of them once, none that differs from a supplied filter; an omitted
\* filter places no constraint.
C6_ListExact ==
    last.op = "list_prompts" =>
        LET want == {i \in 1..Len(registry) :
                        MatchesSupplied(registry[i].val, last.domain,
                                        last.environment, last.agent_type)}
        IN  /\ Len(last.ret) = Cardinality(want)
            /\ {last.ret[j] : j \in 1..Len(last.ret)}
                  = {registry[i].val : i \in want}

IngestOps ==
    {"ingest_dfcx_prompts", "ingest_adk_prompts", "ingest_custom_prompts"}

\* the sample prompts of the producer behind an ingestion routine
SamplesOf(op) ==
    CASE op = "ingest_dfcx_prompts" -> DfcxSamplePrompts
      [] op = "ingest_adk_prompts" -> AdkSamplePrompts
      [] op = "ingest_custom_prompts" -> CustomSamplePrompts

\* where d holds records of the (source, domain, name, environment) of p
Stored(d, p) ==
    {i \in 1..Len(d) : /\ d[i].val.agent_type = p.agent_type
                       /\ d[i].val.domain = p.domain
                       /\ d[i].val.name = p.name
                       /\ d[i].val.environment = p.environment}

IngestStep ==
    last'.op \in IngestOps =>
        LET samples == SamplesOf(last'.op)
            again == {k \in 1..Len(samples) : Stored(registry, samples[k]) # {}}
        IN  /\ last'.outcome = "ok"
            /\ \A k \in 1..Len(samples) :
                  Cardinality(Stored(registry', samples[k])) = 1
            /\ \A k \in again :
                  /\ \E j \in 1..Len(last'.skipped) :
                        last'.skipped[j] = [name |-> samples[k].name,
                                            outcome |-> "AlreadyExistsError"]
                  /\ \A i \in Stored(registry, samples[k]) :
                        registry'[i] = registry[i]
            /\ again = 1..Len(samples) =>
                  /\ registry' = registry
                  /\ last'.ingested = << >>
                  /\ Len(last'.skipped) = Len(samples)

\* C7: however often a producer's ingestion routine runs, the store holds
\* exactly one record per (source, domain, name, environment) of its samples;
\* in the second and later runs every create call fails with
\* AlreadyExistsError, is caught as a skip, and the store, the versions and
\* current_version of the record included, stays as the first run left it.
C7_IngestIdempotent == [][IngestStep]_vars

\* a later run of the custom ingestor has just skipped both samples, one of
\* them versioned since the first run
C7_Witness ==
    /\ last.op = "ingest_custom_prompts"
    /\ Len(last.skipped) = 2
    /\ \E i \in 1..Len(registry) :
          /\ registry[i].val.agent_type = CUSTOM
          /\ registry[i].val.current_version = 2

IngestRecoveryStep ==
    last'.op \in IngestOps \cup {"ingest_produced"} =>
        /\ \A j \in 1..Len(last'.skipped) :
              last'.skipped[j].outcome = "AlreadyExistsError"
        /\ last'.op = "ingest_produced" => last'.outcome = "ValidationError"

\* C18: an ingestion routine skips a prompt only when create fails because
\* the id exists; a ValidationError of create is not swallowed or reported as
\* a skip but reaches the caller of the routine as a ValidationError.
C18_OnlyExistsRecovered == [][IngestRecoveryStep]_vars

---------------------------------------------------------------------------
(* Properties of the registry: errors.                                     *)

\* the fields of a create call that are outside their closed set
InvalidFields(domain, agent_type, environment) ==
    (IF domain \in {BILLING, TECH_SUPPORT, ACCOUNT_MGMT, GENERAL, SHARED}
     THEN {} ELSE {"domain"})
    \cup (IF agent_type \in {DFCX, ADK, CUSTOM} THEN {} ELSE {"agent_type"})
    \cup (IF environment \in {DEV, QA, STAGING, PROD} THEN {} ELSE {"environment"})

ValidationStep ==
    (/\ last'.op = "create_prompt"
     /\ InvalidFields(last'.domain, last'.agent_type, last'.environment) # {}) =>
        /\ last'.outcome = "ValidationError"
        /\ {last'.detail[i].field : i \in 1..Len(last'.detail)}
              = InvalidFields(last'.domain, last'.agent_type, last'.environment)
        /\ registry' = registry

\* C8: a create call with a domain, source or environment outside its closed
\* set fails with ValidationError, the message names every invalid field of
\* the three, and the store is unchanged, also when the derived id is already
\* a key of the store.
C8_ValidateBeforeMutate == [][ValidationStep]_vars

\* a create call with two invalid fields, whose derived id is a key of the
\* store, has just failed
C8_Witness ==
    /\ last.op = "create_prompt"
    /\ last.outcome = "ValidationError"
    /\ Len(last.detail) = 2
    /\ HasKey(registry, GeneratePromptId(last.name, last.domain,
                                         last.agent_type, last.environment))

CreateStep ==
    (/\ last'.op = "create_prompt"
     /\ InvalidFields(last'.domain, last'.agent_type, last'.environment) = {}) =>
        LET id == GeneratePromptId(last'.name, last'.domain, last'.agent_type,
                                   last'.environment)
        IN  IF HasKey(registry, id)
            THEN /\ last'.outcome = "AlreadyExistsError"
                 /\ registry' = registry
            ELSE /\ last'.outcome = "ok"
                 /\ Len(registry') = Len(registry) + 1
                 /\ SubSeq(registry', 1, Len(registry)) = registry
                 /\ registry'[Len(registry')].key = id
                 /\ LET new == registry'[Len(registry')].val
                    IN  /\ new.current_version = 1
                        /\ KeyList(new.versions) = <<IntToStr(1)>>
                        /\ Get(new.versions, IntToStr(1)).system_instructions
                              = last'.content.system_instructions
                        /\ Get(new.versions, IntToStr(1)).template
                              = last'.content.template

\* C9: a create call with valid fields fails with AlreadyExistsError when the
\* derived id is a key of the store, and the store is unchanged; otherwise the
\* store gains exactly one record, keyed by the derived id, with
\* current_version 1 and the single version entry 1 that holds the supplied
\* instructions and template, and no other record changes.
C9_CreateOutcome == [][CreateStep]_vars

\* a create call has just failed on a record that has two versions, with
\* content other than the content of its version 1
C9_Witness ==
    /\ last.op = "create_prompt"
    /\ last.outcome = "AlreadyExistsError"
    /\ Get(registry, last.detail).current_version = 2
    /\ Get(Get(registry, last.detail).versions, IntToStr(1)).template
          # last.content.template

UpdateStep ==
    last'.op = "update_prompt" =>
        IF ~HasKey(registry, last'.prompt_id)
        THEN /\ last'.outcome = "NotFoundError"
             /\ registry' = registry
        ELSE LET old == Get(registry, last'.prompt_id)
                 new == Get(registry', last'.prompt_id)
                 active == Get(new.versions, IntToStr(new.current_version))
             IN  /\ last'.outcome = "ok"
                 /\ new.current_version = old.current_version + 1
                 /\ active.system_instructions = last'.content.system_instructions
                 /\ active.template = last'.content.template
                 /\ active.change_note = last'.change_note
                 /\ new.model_parameters =
                       IF Supplied(last'.model_parameters)
                       THEN TheValue(last'.model_parameters)
                       ELSE old.model_parameters
                 /\ KeyList(registry') = KeyList(registry)
                 /\ \A id \in KeySet(registry) \ {last'.prompt_id} :
                       Get(registry', id) = Get(registry, id)

\* C11: update(id, ...) fails with NotFoundError when id is absent and leaves
\* the store unchanged; when id is present the new active version holds the
\* supplied instructions, template and change note, model_parameters is the
\* supplied params when params are supplied and is unchanged otherwise, and
\* every other record is untouched.
C11_UpdateFrame == [][UpdateStep]_vars

RollbackErrorStep ==
    last'.op = "rollback" =>
        IF ~HasKey(registry, last'.prompt_id)
        THEN /\ last'.outcome = "NotFoundError"
             /\ registry' = registry
        ELSE LET old == Get(registry, last'.prompt_id)
             IN  last'.target_version \notin 1..old.current_version =>
                    /\ last'.outcome = "VersionNotFoundError"
                    /\ last'.detail =
                          [k \in 1..old.current_version |-> IntToStr(k)]
                    /\ registry' = registry

\* C10: rollback(id, target_version) fails with NotFoundError when id is
\* absent, and with VersionNotFoundError listing the available versions when
\* the record has no version target_version (0, a negative number,
\* current_version + 1); in both cases the store is unchanged.
C10_RollbackErrors == [][RollbackErrorStep]_vars

\* a rollback to a negative version of a record with two versions has just
\* failed
C10_Witness ==
    /\ last.op = "rollback"
    /\ last.outcome = "VersionNotFoundError"
    /\ last.target_version < 0
    /\ Len(last.detail) = 2

---------------------------------------------------------------------------
(* Properties of the command line.                                         *)

CliOps == {"main_migrate", "main_rollback", "main_demo"}

\* C19: no run of the command line that reaches the core (--migrate,
\* --rollback, --demo) ends with an uncaught error: whatever the core raises
\* is caught at the command line and printed as a message.
C19_ErrorsReported == last.op \in CliOps => last.process # "uncaught"

---------------------------------------------------------------------------
(* Properties of the registry: the identity of a record.                   *)

\* the record stored under key is keyed by its own id, derived from its fields
OwnId(key, prompt) ==
    /\ prompt.prompt_id = key
    /\ key = GeneratePromptId(prompt.name, prompt.domain, prompt.agent_type,
                              prompt.environment)
    /\ InList(prompt.environment, ENVIRONMENTS)
    /\ EndsWith(key, US \o prompt.environment)

\* what names a record for good
Identity(prompt) ==
    <<prompt.prompt_id, prompt.name, prompt.domain, prompt.agent_type,
      prompt.environment>>

IdentityStep ==
    /\ Len(registry') >= Len(registry)
    /\ \A i \in 1..Len(registry) :
          /\ registry'[i].key = registry[i].key
          /\ Identity(registry'[i].val) = Identity(registry[i].val)

\* C21: in every reachable state each record is stored under its own id, the
\* id is the one _generate_prompt_id derives from the record's agent_type,
\* domain, name and environment, and it ends in "_" and the environment; no
\* create, update, rollback or migrate changes the id, name, domain,
\* agent_type or environment of a record that exists, and none removes one.
C21_StableIdentity ==
    /\ [](\A i \in 1..Len(registry) : OwnId(registry[i].key, registry[i].val))
    /\ [][IdentityStep]_vars

\* a record that an update versioned has just been promoted into a second
\* record, beside it
C21_Witness ==
    /\ last.op = "migrate"
    /\ last.outcome = "ok"
    /\ ~last.dry_run
    /\ Len(registry) = 2
    /\ registry[1].val.current_version = 2
    /\ registry[2].val.environment # registry[1].val.environment

---------------------------------------------------------------------------
(* Properties of the files under stops and under two processes.            *)

\* the success entries of the manifest m for the record id at version v
EntriesFor(m, id, v) ==
    {k \in 1..Len(m) : /\ m[k].status = "success"
                       /\ m[k].target_prompt_id = id
                       /\ m[k].target_version = {v}}

\* a stop between the two writes of a real migrate has left the promoted
\* record in the registry file and no entry for it in the manifest file
CrashedUnrecorded ==
    /\ last.op = "crashed"
    /\ \E i \in Written(last.before, registry) :
          EntriesFor(manifest, registry[i].key, registry[i].val.current_version) = {}

RecordedStep ==
    (last'.op = "migrate" /\ last'.outcome = "ok") =>
        /\ Written(last'.before, registry') # {}
        /\ \A i \in Written(last'.before, registry') :
              /\ last'.ret.target_prompt_id = registry'[i].key
              /\ last'.ret.target_version = {registry'[i].val.current_version}
              /\ manifest'[Len(manifest')] = last'.ret
              /\ Len(manifest') \in
                    EntriesFor(manifest', registry'[i].key,
                               registry'[i].val.current_version)

\* C22: a real migrate that is not stopped leaves, for the record it created
\* or the version it appended, a success entry in the manifest whose
\* target_prompt_id is the id of that record and whose target_version is that
\* version (a stop between the two writes leaves the record without entry).
C22_MigrateRecorded == [][RecordedStep]_vars

\* C23: the registry file is rewritten atomically: when a create, update or
\* rollback is stopped at any point, the file holds a whole document that is
\* either the data before the call or the data the call was saving, never an
\* empty or partly written one.
C23_AtomicRewrite ==
    last.op = "interrupted" => /\ intact
                               /\ registry \in {last.before, last.after}

\* new holds every record of old with every version entry old had
NothingLost(old, new) ==
    \A id \in KeySet(old) :
        /\ HasKey(new, id)
        /\ HistoryKept(Get(old, id), Get(new, id))

SerialSaveStep ==
    (/\ last'.op \in {"create_prompt", "update_prompt", "rollback"}
     /\ last'.outcome = "ok"
     /\ last'.loaded = last'.before) =>
        /\ NothingLost(registry, registry')
        /\ HasKey(registry', last'.ret.prompt_id)
        /\ Get(registry', last'.ret.prompt_id) = last'.ret

\* C24: a mutating call that no other writer's save falls into (the file it
\* overwrites is the file it loaded, as under a single writer) loses nothing:
\* every record and version entry of the file is kept and the record it
\* returns is stored.  When two writers both load before either saves, the
\* later save overwrites the earlier one and a returned mutation is lost.
C24_SingleWriterKeeps == [][SerialSaveStep]_vars

\* two updates of a record at v1 have both returned; the file holds a single
\* v2, that of the later save, and the v2 of the earlier save is gone
C24_Witness ==
    /\ last.op = "update_prompt"
    /\ last.outcome = "ok"
    /\ HasKey(last.loaded, last.call.prompt_id)
    /\ HasKey(last.before, last.call.prompt_id)
    /\ Get(last.loaded, last.call.prompt_id).current_version = 1
    /\ Get(last.before, last.call.prompt_id).current_version = 2
    /\ Get(registry, last.call.prompt_id).current_version = 2
    /\ Held(Get(Get(registry, last.call.prompt_id).versions, IntToStr(2)))
          # Held(Get(Get(last.before, last.call.prompt_id).versions, IntToStr(2)))

---------------------------------------------------------------------------
(* Properties of the id scheme.                                            *)

\* name.lower().replace(" ", "_")[:30], what the id keeps of the name
Slug(name) == Prefix(ReplaceSpaces(Lower(name)), NAME_SLUG_LEN)

\* the tuple with its name replaced by the slug of the name
Slugged(t) == [t EXCEPT !.name = Slug(t.name)]

\* C25: _generate_prompt_id is collision-free: two distinct tuples of valid
\* agent_type, domain and environment and of names within the length bound
\* yield distinct ids (and the same tuple yields the same id).
C25_CollisionFree ==
    last.op = "generate_prompt_id" => (last.id_a = last.id_b <=> last.a = last.b)

\* C25, amended: two such tuples yield the same id exactly when they agree on
\* agent_type, domain and environment and their names have the same slug.
C25_CollisionFreeOnSlugs ==
    last.op = "generate_prompt_id" =>
        (last.id_a = last.id_b <=> Slugged(last.a) = Slugged(last.b))

\* two tuples that differ in their names only, by the case of a letter and by
\* a space for the separator, have been given the same id
C25_Witness ==
    /\ last.op = "generate_prompt_id"
    /\ last.a.name = <<"A", " ">>
    /\ last.b.name = <<"a", "_">>
    /\ last.id_a = last.id_b

---------------------------------------------------------------------------
(* Properties of the id scheme: the environment suffix.                    *)

\* s ends in "_" and an environment
EndsInEnv(s) == \E e \in EnvSet : EndsWith(s, US \o e)

\* s is t followed by exactly one "_" and an environment
OneSuffixMore(s, t) == \E e \in EnvSet : s = t \o US \o e

\* the number of environment suffixes s ends in
RECURSIVE SuffixCount(_)
SuffixCount(s) ==
    IF \E e \in EnvSet : EndsWith(s, US \o e)
    THEN LET e == CHOOSE x \in EnvSet : EndsWith(s, US \o x)
         IN  1 + SuffixCount(SubSeq(s, 1, Len(s) - Len(e) - 1))
    ELSE 0

\* C26: _get_base_prompt_id returns an id that ends in no "_<env>" unchanged
\* and otherwise takes exactly one "_<env>" off its end; _build_env_prompt_id
\* with e2 on the result of _build_env_prompt_id with e1 gives what
\* _build_env_prompt_id with e2 gives on the id itself; and on an id that
\* ends in at most one environment suffix its result ends in exactly one.
C26_SuffixFunctions ==
    last.op = "env_suffix" =>
        /\ ~EndsInEnv(last.id) => last.base = last.id
        /\ EndsInEnv(last.id) => OneSuffixMore(last.id, last.base)
        /\ last.twice = last.direct
        /\ SuffixCount(last.id) <= 1 =>
               /\ SuffixCount(last.once) = 1
               /\ last.once = last.base \o US \o last.e1

\* the functions have been applied to an id that ends in one suffix, with two
\* different environments of which the first is not the id's own
C26_Witness ==
    /\ last.op = "env_suffix"
    /\ SuffixCount(last.id) = 1
    /\ last.e1 # last.e2
    /\ ~EndsWith(last.id, US \o last.e1)
    /\ last.twice = last.base \o US \o last.e2

---------------------------------------------------------------------------
(* Properties of the migration engine: what a promotion carries over.      *)

PromotionKeys == {"promoted_from", "promoted_from_version", "promoted_by"}

\* the records of new at positions old does not have
Created(old, new) == {i \in 1..Len(new) : i > Len(old)}

CarriedStep ==
    (last'.op = "migrate" /\ ~last'.dry_run /\ last'.outcome = "ok") =>
        \A i \in Created(registry, registry') :
            LET target == registry'[i].val
                source == Get(registry, last'.ret.source_prompt_id)
                kept == DOMAIN source.metadata \ PromotionKeys
            IN  /\ target.model_parameters = source.model_parameters
                /\ DOMAIN target.metadata = DOMAIN source.metadata \cup PromotionKeys
                /\ \A k \in kept : target.metadata[k] = source.metadata[k]
                /\ target.metadata["promoted_from"] = source.environment
                /\ target.metadata["promoted_from_version"] = source.current_version
                /\ target.metadata["promoted_by"] = OPERATOR

\* every record that carries promoted_from is in the environment that follows
\* the one it names
PromotedToSuccessor ==
    \A i \in 1..Len(registry) :
        LET prompt == registry[i].val
        IN  "promoted_from" \in DOMAIN prompt.metadata =>
                prompt.environment = SuccessorOf(prompt.metadata["promoted_from"])

---------------------------------------------------------------------------
(* Properties of the migration engine: the calls that fail.                *)

FailedMigrateStep ==
    (last'.op = "migrate" /\ last'.outcome # "ok") =>
        /\ registry' = registry
        /\ manifest' = manifest

\* C28: a call of migrate, dry or real, that raises because no record is
\* found or because the source is in the last environment leaves the registry
\* and the manifest as they were, and a real call whose create or update
\* raises appends no entry to the manifest (nor writes to the registry).
C28_FailedMigrateWritesNothing == [][FailedMigrateStep]_vars

\* a real migrate has failed in its create step, after promotions that were
\* recorded
C28_Witness ==
    /\ last.op = "migrate"
    /\ ~last.dry_run
    /\ last.outcome = "AlreadyExistsError"
    /\ manifest # << >>
    /\ registry # EmptyDict

\* a migrate has failed for an id of no record, and one for a record of prod
C28_FailedLookups ==
    /\ last.op = "migrate"
    /\ last.outcome \in {"NotFoundError", "TerminalEnvironmentError"}
    /\ manifest # << >>

---------------------------------------------------------------------------
(* Properties of the registry: reading a record.                           *)

\* the fields of a stored record
StoredFields ==
    {"prompt_id", "name", "domain", "agent_type", "environment",
     "current_version", "created_at", "updated_at", "model_parameters",
     "metadata", "versions"}

\* what the last call, a get_prompt, returned is the record stored under its
\* id with the content of the current version, or NotFoundError for no record
ReadOfStored ==
    last.op = "get_prompt" =>
        IF HasKey(registry, last.prompt_id)
        THEN LET prompt == Get(registry, last.prompt_id)
                 current == Get(prompt.versions, IntToStr(prompt.current_version))
             IN  /\ last.outcome = "ok"
                 /\ \A k \in StoredFields : last.ret[k] = prompt[k]
                 /\ last.ret.system_instructions = current.system_instructions
                 /\ last.ret.template = current.template
        ELSE last.outcome = "NotFoundError"

ReadStep == last'.op = "get_prompt" => registry' = registry

\* C29: get_prompt of a stored id returns every field of the record with its
\* stored value, with the system_instructions and template of the current
\* version; of an id of no record it raises NotFoundError; and it leaves the
\* registry as it was.
C29_ReadReturnsStored == []ReadOfStored /\ [][ReadStep]_vars

\* what holds of the fields: all but created_at are returned as stored
C29_ReadButCreatedAt ==
    (last.op = "get_prompt" /\ last.outcome = "ok") =>
        LET prompt == Get(registry, last.prompt_id)
            current == Get(prompt.versions, IntToStr(prompt.current_version))
        IN  /\ \A k \in StoredFields \ {"created_at"} : last.ret[k] = prompt[k]
            /\ last.ret.created_at = current.created_at

---------------------------------------------------------------------------
(* Properties of the migration engine: the promotion to an existing target. *)

\* the fields of a record that an added version changes
VersionFields == {"versions", "current_version", "updated_at"}

\* f"Promoted from {source_env} v{source_version}" for the source given
NoteNaming(source) ==
    <<"P", "r", "o", "m", "o", "t", "e", "d", " ", "f", "r", "o", "m", " ">>
    \o source.environment \o <<" ", "v">> \o IntToStr(source.current_version)

AppendedToTargetStep ==
    (/\ last'.op = "migrate"
     /\ ~last'.dry_run
     /\ last'.outcome = "ok"
     /\ Len(registry') = Len(registry)) =>
        LET source == Get(registry, last'.ret.source_prompt_id)
        IN  /\ Cardinality(Written(registry, registry')) = 1
            /\ \A i \in Written(registry, registry') :
                  LET old == registry[i].val
                      new == registry'[i].val
                  IN  /\ registry'[i].key = registry[i].key
                      /\ \A k \in (DOMAIN old) \ VersionFields : new[k] = old[k]
                      /\ DOMAIN new = DOMAIN old
                      /\ OneEntryAdded(old, new)
                      /\ HistoryKept(old, new)
                      /\ Get(new.versions, IntToStr(new.current_version)).change_note
                             = NoteNaming(source)

\* C30: a real migrate that adds a version to a target that exists changes
\* the versions, current_version and updated_at of that record and nothing
\* else in the registry: the model_parameters and metadata of the target stay
\* as they were, and the change note of the new version names the environment
\* and the version of the source.
C30_TargetKeepsItsOwn == [][AppendedToTargetStep]_vars

\* a real migrate has added a version to a target whose model_parameters and
\* metadata differ from those of the source
C30_Witness ==
    /\ last.op = "migrate"
    /\ ~last.dry_run
    /\ last.outcome = "ok"
    /\ last.ret.target_version # {INITIAL_VERSION}
    /\ HasKey(registry, last.ret.source_prompt_id)
    /\ HasKey(registry, last.ret.target_prompt_id)
    /\ Get(registry, last.ret.source_prompt_id).model_parameters
           # Get(registry, last.ret.target_prompt_id).model_parameters
    /\ "promoted_from" \notin DOMAIN Get(registry, last.ret.target_prompt_id).metadata
    /\ Get(registry, last.ret.source_prompt_id).metadata = MetaA

---------------------------------------------------------------------------
(* Properties of the registry: the closed sets.                            *)

\* the values of a list of config.py
Allowed(list) == {list[i] : i \in 1..Len(list)}

\* C31: in every state, every record of the registry, whether it came by a
\* create call, by an ingestor or by a promotion, has its domain among
\* config.DOMAINS, its agent_type among config.AGENT_TYPES and its environment
\* among config.ENVIRONMENTS.
C31_FieldsInClosedSets ==
    \A i \in 1..Len(registry) :
        /\ registry[i].val.domain \in Allowed(DOMAINS)
        /\ registry[i].val.agent_type \in Allowed(AGENT_TYPES)
        /\ registry[i].val.environment \in Allowed(ENVIRONMENTS)

\* a create call with a field outside the closed sets has been refused, in a
\* registry that holds a record created by a promotion and one that was not
C31_Witness ==
    /\ last.op = "create_prompt"
    /\ last.outcome = "ValidationError"
    /\ \E i \in 1..Len(registry) : "promoted_from" \in DOMAIN registry[i].val.metadata
    /\ \E i \in 1..Len(registry) : "promoted_from" \notin DOMAIN registry[i].val.metadata

---------------------------------------------------------------------------
(* Properties of the registry: the history of a record.                    *)

\* C32: get_version_history of a stored id returns all versions of the record
\* in ascending order of their numbers, that is a list as long as
\* current_version whose i-th element is the stored version i; of an id of no
\* record it raises NotFoundError.
C32_HistoryAscending ==
    last.op = "get_version_history" =>
        IF HasKey(registry, last.prompt_id)
        THEN LET prompt == Get(registry, last.prompt_id)
             IN  /\ last.outcome = "ok"
                 /\ Len(last.ret) = prompt.current_version
                 /\ \A i \in 1..Len(last.ret) :
                       /\ last.ret[i].version = i
                       /\ last.ret[i] = Get(prompt.versions, IntToStr(i))
        ELSE last.outcome = "NotFoundError"

\* the history of a record with an update and a rollback behind it has been
\* returned
C32_Witness ==
    /\ last.op = "get_version_history"
    /\ last.outcome = "ok"
    /\ Len(last.ret) >= 3
    /\ last.ret[3].system_instructions = last.ret[1].system_instructions
    /\ last.ret[2].system_instructions # last.ret[1].system_instructions

\* the history of an id of no record has been asked for
C32_AbsentAsked ==
    /\ last.op = "get_version_history"
    /\ last.outcome = "NotFoundError"
    /\ registry # EmptyDict

---------------------------------------------------------------------------
(* Properties of the manifest: the ids of its entries.                     *)

\* C33: no two entries of the manifest have the same migration_id, also when
\* one record is promoted to the same environment more than once within one
\* second of the clock.
C33_MigrationIdsDistinct ==
    \A i, j \in 1..Len(manifest) :
        i # j => manifest[i].migration_id # manifest[j].migration_id

\* what holds of the ids: two entries with the same migration_id were written
\* in the same second for the same base id, source and target environment
C33_SameIdSameSecond ==
    \A i, j \in 1..Len(manifest) :
        manifest[i].migration_id = manifest[j].migration_id =>
            /\ GetBasePromptId(manifest[i].source_prompt_id)
                   = GetBasePromptId(manifest[j].source_prompt_id)
            /\ manifest[i].source_env = manifest[j].source_env
            /\ manifest[i].target_env = manifest[j].target_env

====
